---- MODULE Spec2Model ----
(***************************************************************************)
(* kuri: the JSON-RPC / MCP message pipeline.                              *)
(*                                                                         *)
(* A JSON document (one message or an array of messages) is deserialised   *)
(* into a Request, handed to MCPRequestService::call, which fans a batch   *)
(* out to MCPService::call per message (futures joined with join_all),     *)
(* and the per-message results are folded into one Response.               *)
(***************************************************************************)
EXTENDS Integers, Sequences, FiniteSets, TLC

(***************************************************************************)
(* Bounds of the model.                                                    *)
(***************************************************************************)
\* longest batch (JSON array) the environment sends
MaxBatch == 3
\* largest numeric id used on the wire (ids are 0..MaxId and one negative)
MaxId == 1
\* the number of items the transport yields before it reaches EOF
MaxLines == 2
\* the number of with_tool / with_prompt calls made on one builder
MaxRegistrations == 3
\* the number of times the reader under a ByteTransport returns Pending
MaxPending == 2
\* the width in bits the model keeps of the counter's i32 and of the u32
\* quantity (the arithmetic is that of the source, at this width)
CounterBits == 3
\* the number of increment and decrement calls the counter service answers
MaxCalls == 3

(***************************************************************************)
(* JSON values, as far as the deserialisers look at them.                  *)
(***************************************************************************)
\* a JSON member: absent, or a value of some JSON type. n is the value of a
\* number (negative numbers included), s the value of a string.
JAbsent == [t |-> "absent", n |-> 0, s |-> ""]
JNull == [t |-> "null", n |-> 0, s |-> ""]
JNum(n) == [t |-> "num", n |-> n, s |-> ""]
JStr(s) == [t |-> "str", n |-> 0, s |-> s]
JBool == [t |-> "bool", n |-> 0, s |-> ""]

\* the `arguments` member of tools/call and prompts/get params: absent, a
\* scalar, or an object that does (fits) or does not deserialise into the
\* parameter record of the handler it is sent to.
\* quantity is the value of the member `quantity` of the object (0 when it
\* has none).
ArgAbsent == [t |-> "absent", fits |-> FALSE, quantity |-> 0]
ArgScalar == [t |-> "scalar", fits |-> FALSE, quantity |-> 0]
ArgObject(fits) == [t |-> "object", fits |-> fits, quantity |-> 0]
\* {"quantity": q}, with q a u32
ArgQuantity(q) == [t |-> "object", fits |-> TRUE, quantity |-> q]

\* the `params` member of an envelope
PAbsent == [t |-> "absent", name |-> JAbsent, arguments |-> ArgAbsent, uri |-> JAbsent]
PNull == [t |-> "null", name |-> JAbsent, arguments |-> ArgAbsent, uri |-> JAbsent]
PScalar == [t |-> "scalar", name |-> JAbsent, arguments |-> ArgAbsent, uri |-> JAbsent]
PArray == [t |-> "array", name |-> JAbsent, arguments |-> ArgAbsent, uri |-> JAbsent]
PObject(name, arguments, uri) ==
    [t |-> "object", name |-> name, arguments |-> arguments, uri |-> uri]

\* a JSON value sent as one message: an object with the four members the
\* deserialisers read, or a scalar such as 1
JObject(jsonrpc, id, method, params) ==
    [j |-> "object", jsonrpc |-> jsonrpc, id |-> id, method |-> method, params |-> params]
JScalar == [j |-> "scalar", jsonrpc |-> JAbsent, id |-> JAbsent, method |-> JAbsent,
            params |-> PAbsent]
\* a JSON array sent as one line, such as [1]
JArray == [j |-> "array", jsonrpc |-> JAbsent, id |-> JAbsent, method |-> JAbsent,
           params |-> PAbsent]

(***************************************************************************)
(* Protocol types (kuri_mcp_protocol::jsonrpc).                            *)
(***************************************************************************)
RequestIdNum(n) == [k |-> "Num", n |-> n, s |-> ""]
RequestIdStr(s) == [k |-> "Str", n |-> 0, s |-> s]
RequestIdNull == [k |-> "Null", n |-> 0, s |-> ""]

\* Option<Params>
ParamsNone == [t |-> "None", name |-> JAbsent, arguments |-> ArgAbsent, uri |-> JAbsent]
ParamsArray == [t |-> "Array", name |-> JAbsent, arguments |-> ArgAbsent, uri |-> JAbsent]
ParamsMap(name, arguments, uri) ==
    [t |-> "Map", name |-> name, arguments |-> arguments, uri |-> uri]

\* SendableMessage: Request(MethodCall), Notification, Invalid { id }.
\* (a Notification has no id: its id field is never read)
MethodCall(id, method, params) ==
    [kind |-> "Request", id |-> id, method |-> method, params |-> params]
Notification(method, params) ==
    [kind |-> "Notification", id |-> RequestIdNull, method |-> method, params |-> params]
Invalid(id) ==
    [kind |-> "Invalid", id |-> id, method |-> "", params |-> ParamsNone]

\* #[serde(untagged)] RequestId: Num(u64), then Str, then the unit variant
\* Null (which takes JSON null); a missing member is an error.
RequestIdDeserialize(j) ==
    CASE j.t = "num" /\ j.n >= 0 -> [ok |-> TRUE, id |-> RequestIdNum(j.n)]
      [] j.t = "str" -> [ok |-> TRUE, id |-> RequestIdStr(j.s)]
      [] j.t = "null" -> [ok |-> TRUE, id |-> RequestIdNull]
      [] OTHER -> [ok |-> FALSE, id |-> RequestIdNull]

\* JsonRpcVersion: try_from = "String", only "2.0" is accepted
JsonRpcVersionTryFrom(j) == j.t = "str" /\ j.s = "2.0"

\* Option<Params>: absent or null is None, an array or an object is Some,
\* any other value fails (Params is untagged: Array | Map)
ParamsDeserialize(p) ==
    CASE p.t \in {"absent", "null"} -> [ok |-> TRUE, params |-> ParamsNone]
      [] p.t = "array" -> [ok |-> TRUE, params |-> ParamsArray]
      [] p.t = "object" ->
            [ok |-> TRUE, params |-> ParamsMap(p.name, p.arguments, p.uri)]
      [] OTHER -> [ok |-> FALSE, params |-> ParamsNone]

\* #[derive(Deserialize)] MethodCall { jsonrpc, id, method, params }
MethodCallDeserialize(v) ==
    /\ v.j = "object"
    /\ JsonRpcVersionTryFrom(v.jsonrpc)
    /\ RequestIdDeserialize(v.id).ok
    /\ v.method.t = "str"
    /\ ParamsDeserialize(v.params).ok

\* #[derive(Deserialize)] Notification { jsonrpc, method, params }: unknown
\* members (an `id` among them) are ignored
NotificationDeserialize(v) ==
    /\ v.j = "object"
    /\ JsonRpcVersionTryFrom(v.jsonrpc)
    /\ v.method.t = "str"
    /\ ParamsDeserialize(v.params).ok

\* SendableMessageDeserialize without the extraction of the id of an invalid
\* message
SendableMessageDeserializeDroppingId(v) ==
    IF MethodCallDeserialize(v)
    THEN MethodCall(RequestIdDeserialize(v.id).id, v.method.s,
                    ParamsDeserialize(v.params).params)
    ELSE IF NotificationDeserialize(v)
    THEN Notification(v.method.s, ParamsDeserialize(v.params).params)
    ELSE Invalid(RequestIdNull)

\* impl Deserialize for SendableMessage
SendableMessageDeserialize(v) ==
    IF MethodCallDeserialize(v)
    THEN MethodCall(RequestIdDeserialize(v.id).id, v.method.s,
                    ParamsDeserialize(v.params).params)
    ELSE IF NotificationDeserialize(v)
    THEN Notification(v.method.s, ParamsDeserialize(v.params).params)
    ELSE Invalid(IF v.j = "object" /\ RequestIdDeserialize(v.id).ok
                 THEN RequestIdDeserialize(v.id).id
                 ELSE RequestIdNull)

\* a JSON document on the wire: one value, or an array of values
\* (WireNone: no document is being answered)
WireNone == [kind |-> "none", elems |-> <<>>]
WireSingle(v) == [kind |-> "single", elems |-> <<v>>]
WireBatch(vs) == [kind |-> "batch", elems |-> vs]

\* impl Deserialize for Request: visit_map gives Single, visit_seq gives
\* Batch with every element deserialised as a SendableMessage
\* (a document that is neither an object nor an array is no Request: ok is FALSE)
RequestNone == [ok |-> FALSE, kind |-> "None", msgs |-> <<>>]
RequestDeserialize(doc) ==
    IF doc.kind = "single"
    THEN [ok |-> doc.elems[1].j = "object", kind |-> "Single",
          msgs |-> <<SendableMessageDeserialize(doc.elems[1])>>]
    ELSE [ok |-> TRUE, kind |-> "Batch",
          msgs |-> [i \in 1..Len(doc.elems) |-> SendableMessageDeserialize(doc.elems[i])]]


(***************************************************************************)
(* Errors (kuri::errors, kuri_mcp_protocol::tool).                         *)
(***************************************************************************)
\* ErrorCode::code
ErrorCodeCode(c) ==
    CASE c = "ParseError" -> -32700
      [] c = "InvalidRequest" -> -32600
      [] c = "MethodNotFound" -> -32601
      [] c = "InvalidParams" -> -32602
      [] c = "InternalError" -> -32603

\* ErrorData { code, message, data }; data is "None" or "Some"
ErrorData(code, message, data) == [code |-> code, message |-> message, data |-> data]
\* ErrorData::new
ErrorDataNew(code, message) == ErrorData(code, message, "None")
NoErrorData == ErrorData("", "", "None")

\* RequestError and ToolError / PromptError / ResourceError values
RequestError(variant, msg) == [variant |-> variant, msg |-> msg]
ToolError(variant, msg) == [variant |-> variant, msg |-> msg]
PromptError(variant, msg) == [variant |-> variant, msg |-> msg]
NoError == [variant |-> "", msg |-> ""]

ToolErrorVariants == {"InvalidParameters", "ExecutionError", "SchemaError", "NotFound"}
PromptErrorVariants == {"InvalidParameters", "NotFound", "InternalError"}

\* the members of a serialised ErrorData: data is skipped when it is None
ErrorDataMembers(e) == {"code", "message"} \cup (IF e.data = "None" THEN {} ELSE {"data"})

\* From<RequestError> for ErrorData repeating the message as data
ErrorDataFromRequestErrorWithData(err) ==
    CASE err.variant = "MethodNotFound" -> ErrorData("MethodNotFound", err.msg, "None")
      [] err.variant = "InvalidParams" -> ErrorData("InvalidParams", err.msg, "Some")
      [] err.variant = "Internal" -> ErrorData("InternalError", err.msg, "None")
      [] err.variant = "ToolNotFound" -> ErrorData("InvalidRequest", err.msg, "None")
      [] err.variant = "ResourceNotFound" -> ErrorData("InvalidRequest", err.msg, "None")
      [] err.variant = "PromptNotFound" -> ErrorData("InvalidRequest", err.msg, "None")
      [] err.variant = "Unsupported" -> ErrorData("InvalidRequest", err.msg, "None")

\* impl From<RequestError> for ErrorData
ErrorDataFromRequestError(err) ==
    CASE err.variant = "MethodNotFound" -> ErrorData("MethodNotFound", err.msg, "None")
      [] err.variant = "InvalidParams" -> ErrorData("InvalidParams", err.msg, "None")
      [] err.variant = "Internal" -> ErrorData("InternalError", err.msg, "None")
      [] err.variant = "ToolNotFound" -> ErrorData("InvalidRequest", err.msg, "None")
      [] err.variant = "ResourceNotFound" -> ErrorData("InvalidRequest", err.msg, "None")
      [] err.variant = "PromptNotFound" -> ErrorData("InvalidRequest", err.msg, "None")
      [] err.variant = "Unsupported" -> ErrorData("InvalidRequest", err.msg, "None")

\* impl From<ToolError> for RequestError; the ExecutionError arm is
\* unreachable!(), a panic
RequestErrorFromToolError(err) ==
    CASE err.variant = "NotFound" ->
            [panic |-> FALSE, err |-> RequestError("ToolNotFound", err.msg)]
      [] err.variant = "InvalidParameters" ->
            [panic |-> FALSE, err |-> RequestError("InvalidParams", err.msg)]
      [] err.variant = "SchemaError" ->
            [panic |-> FALSE, err |-> RequestError("InvalidParams", err.msg)]
      [] err.variant = "ExecutionError" ->
            [panic |-> TRUE, err |-> NoError]

\* #[error("...")] Display of ResourceError
ResourceErrorToString(err) ==
    CASE err.variant = "ExecutionError" -> "Execution failed: " \o err.msg
      [] err.variant = "NotFound" -> "Resource not found: " \o err.msg

\* impl From<ResourceError> for RequestError
RequestErrorFromResourceError(err) ==
    IF err.variant = "NotFound"
    THEN RequestError("ResourceNotFound", err.msg)
    ELSE RequestError("Internal", "Unknown resource error: " \o ResourceErrorToString(err))

\* Display of PromptError (kuri_mcp_protocol::prompt)
PromptErrorToString(err) ==
    CASE err.variant = "InvalidParameters" -> "Invalid parameters: " \o err.msg
      [] err.variant = "NotFound" -> "Prompt not found: " \o err.msg
      [] err.variant = "InternalError" -> "Internal error: " \o err.msg

\* RequestErrorFromPromptError with NotFound mapped to PromptNotFound
RequestErrorFromPromptErrorAsNotFound(err) ==
    CASE err.variant = "InvalidParameters" ->
            RequestError("InvalidParams", PromptErrorToString(err))
      [] err.variant = "NotFound" -> RequestError("PromptNotFound", err.msg)
      [] err.variant = "InternalError" -> RequestError("Internal", PromptErrorToString(err))

\* the map_err closure of handle_prompts_get
RequestErrorFromPromptError(err) ==
    CASE err.variant = "InvalidParameters" ->
            RequestError("InvalidParams", PromptErrorToString(err))
      [] err.variant = "NotFound" -> RequestError("InvalidParams", PromptErrorToString(err))
      [] err.variant = "InternalError" -> RequestError("Internal", PromptErrorToString(err))

(***************************************************************************)
(* Results and response items.                                             *)
(***************************************************************************)
\* Content::text
ContentText(text) == [type |-> "text", text |-> text]

\* CallToolResult { content, is_error }
CallToolResult(content, is_error) == [content |-> content, is_error |-> is_error]
NoCallToolResult == CallToolResult(<<>>, FALSE)

\* Result<CallToolResult, ToolError>
ToolOk(value) == [ok |-> TRUE, value |-> value, err |-> NoError]
ToolErr(err) == [ok |-> FALSE, value |-> NoCallToolResult, err |-> err]

\* what a tool function (or a hand-written ToolHandler::call) returns:
\* ok with a text (and, for a hand-written handler, the is_error flag it
\* sets), or a ToolError
FnOk(text, is_error) == [ok |-> TRUE, text |-> text, is_error |-> is_error, err |-> NoError]
FnErr(err) == [ok |-> FALSE, text |-> "", is_error |-> FALSE, err |-> err]
\* a tool function without a result returns ()
FnUnit == [ok |-> TRUE, text |-> "()", is_error |-> FALSE, err |-> NoError]

\* successful_text_response
SuccessfulTextResponse(text) == ToolOk(CallToolResult(<<ContentText(text)>>, FALSE))

\* ResultIntoCallToolResult that propagates every ToolError, ExecutionError
\* included
ResultIntoCallToolResultNoFold(r) ==
    IF r.ok THEN SuccessfulTextResponse(r.text) ELSE ToolErr(r.err)

\* ResultIntoCallToolResult that folds every ToolError into a tool result
ResultIntoCallToolResultFoldAll(r) ==
    IF r.ok
    THEN SuccessfulTextResponse(r.text)
    ELSE ToolOk(CallToolResult(<<ContentText("Error: " \o r.err.msg)>>, TRUE))

\* impl IntoCallToolResult for ()
UnitIntoCallToolResult == ToolOk(CallToolResult(<<>>, FALSE))

\* impl IntoCallToolResult for Result<T, ToolError>
ResultIntoCallToolResult(r) ==
    IF r.ok
    THEN SuccessfulTextResponse(r.text)
    ELSE IF r.err.variant = "ExecutionError"
         THEN ToolOk(CallToolResult(<<ContentText("Error: " \o r.err.msg)>>, TRUE))
         ELSE ToolErr(r.err)

\* Option<ToolsCapability>, Option<PromptsCapability>,
\* Option<ResourcesCapability>: None, or Some with list_changed = Some(b)
NoCapability == [some |-> FALSE, list_changed |-> FALSE]
Capability(list_changed) == [some |-> TRUE, list_changed |-> list_changed]
\* ServerCapabilities { prompts, resources, tools }; a member that is None
\* is skipped by the serialisation
ServerCapabilities(prompts_cap, resources_cap, tools_cap) ==
    [prompts |-> prompts_cap, resources |-> resources_cap, tools |-> tools_cap]
\* Implementation { name, version }
Implementation(name, server_version) == [name |-> name, version |-> server_version]

\* a serde_json::Value holding a result; the members a result type does not
\* have are left at their defaults. CallToolResult serialises is_error as
\* isError and skips it when it is false.
Value(shape, content, isError, names, text) ==
    [shape |-> shape, content |-> content, isError |-> isError, names |-> names,
     text |-> text, capabilities |-> ServerCapabilities(NoCapability, NoCapability, NoCapability),
     serverInfo |-> Implementation("", "")]
NoValue == Value("", <<>>, "absent", {}, "")
CallToolResultToValue(r) ==
    Value("CallToolResult", r.content, IF r.is_error THEN "true" ELSE "absent", {}, "")

\* ResponseItem::success / ResponseItem::error
ResponseItemSuccess(id, result) ==
    [kind |-> "Success", id |-> id, result |-> result, error |-> NoErrorData]
ResponseItemError(id, error) ==
    [kind |-> "Error", id |-> id, result |-> NoValue, error |-> error]

\* Option<ResponseItem>
None == [some |-> FALSE, item |-> ResponseItemError(RequestIdNull, NoErrorData)]
Some(item) == [some |-> TRUE, item |-> item]

\* Result<ResponseItem, RequestError>, the result of a handle_* method
Ok(item) == [ok |-> TRUE, item |-> item, err |-> NoError]
Err(err) == [ok |-> FALSE, item |-> None.item, err |-> err]

(***************************************************************************)
(* The built service (MCPServiceBuilder::build) and the handlers           *)
(* registered with it.                                                     *)
(***************************************************************************)
\* calculator: #[tool] fn(x, y, operation) -> Result<i32, ToolError>
\* get_value:  #[tool] fn(Inject<Counter>) -> i32, no parameters
\* manual:     a hand-written impl ToolHandler
ToolNames == {"calculator", "get_value", "manual"}
\* review_code:   #[prompt] fn(code: String) -> String
\* manual_prompt: a hand-written impl PromptHandler
PromptNames == {"review_code", "manual_prompt"}

\* increment, decrement: #[tool] fn(Inject<Counter>, quantity: u32), no result
CounterTools == {"increment", "decrement", "get_value"}

\* the types the counter tools take from the context with Inject<T>
StateTypes == {"Counter"}

\* i32 arithmetic wraps: the value of n in the two's complement of the width
I32Wrap(n) == ((n + 2 ^ (CounterBits - 1)) % (2 ^ CounterBits)) - 2 ^ (CounterBits - 1)
\* the values of a u32
U32 == 0..(2 ^ CounterBits - 1)
\* counter.inner.fetch_add(quantity as i32, SeqCst)
fetch_add(c, quantity) == I32Wrap(c + I32Wrap(quantity))
\* counter.inner.fetch_sub(quantity as i32, SeqCst)
fetch_sub(c, quantity) == I32Wrap(c - I32Wrap(quantity))

\* MCPServiceBuilder::new(name): the version defaults to "0.1.0"
MCPServiceBuilderNew(name) ==
    [name |-> name, version |-> "0.1.0", tools |-> {}, prompts |-> {},
     notification_handler |-> FALSE, ctx |-> {}]

\* the services the builder is used for: tools only, prompts only, a
\* notification handler only, everything (the only one built with
\* with_version), and tools built without with_state
Builds ==
    { [MCPServiceBuilderNew("Calculator") EXCEPT !.tools = ToolNames, !.ctx = StateTypes],
      [MCPServiceBuilderNew("Prompt Server") EXCEPT !.prompts = PromptNames],
      [MCPServiceBuilderNew("Notification server") EXCEPT !.notification_handler = TRUE],
      [MCPServiceBuilderNew("Everything") EXCEPT
            !.version = "1.2.3", !.tools = ToolNames, !.prompts = PromptNames,
            !.notification_handler = TRUE, !.ctx = StateTypes],
      [MCPServiceBuilderNew("Stateless") EXCEPT !.tools = ToolNames] }

\* init_tool_server_with_ctx: the counter service
CounterBuild ==
    [MCPServiceBuilderNew("Counter") EXCEPT !.tools = CounterTools, !.ctx = StateTypes]

VARIABLES
    server_name,            \* MCPService.name
    version,                \* MCPService.version
    tools,                  \* MCPService.tools: the registered tool names
    prompts,                \* MCPService.prompts: the registered prompt names
    notification_handler,   \* MCPService.notification_handler is Some
    ctx,                    \* MCPService.ctx: the types registered with with_state
    counter,                \* the AtomicI32 of the Counter in the context
    ledger,                 \* history: the sums of the quantities added and taken
    phase,                  \* "idle", "running", "done", "panicked"
    wire,                   \* the JSON document being answered
    request,                \* the Request it deserialised into
    tasks,                  \* one future per message: MCPService::call(msg)
    response,               \* the Response of MCPRequestService::call
    transport,              \* serve: what the transport will still yield
    has_errored,            \* serve: the Framed stream yielded an error last
    lines,                  \* serve: the items frame.next() has yielded
    written,                \* serve: the responses written on the transport
    log,                    \* serve: the tracing events of handle_connection
    codec,                  \* a SendableMessage, its serialisation, and that parsed
    error_codec,            \* an ErrorCode, its serialisation, and that deserialised
    byte_transport,         \* a ByteTransport: its reader, and the lines it yielded
    registry                \* a builder's handlers by name, and the service built

serving == <<transport, has_errored, lines, written, log>>
config == <<server_name, version, tools, prompts, notification_handler, ctx>>
state == <<counter, ledger>>
codecs == <<codec, error_codec>>
aside == <<codecs, byte_transport, registry>>
vars == <<config, state, phase, wire, request, tasks, response, serving, aside>>

\* messages a tool function puts in the ToolError it returns
ErrMsgs == {"Division by zero"}

\* what a tool's function can return
ToolReturns(name) ==
    CASE name = "calculator" ->
            {FnOk("3", FALSE)} \cup
            {FnErr(ToolError(v, m)) : v \in ToolErrorVariants, m \in ErrMsgs}
      [] name = "get_value" -> {FnOk(ToString(counter), FALSE)}
      [] name \in {"increment", "decrement"} -> {FnUnit}
      [] name = "manual" ->
            {FnOk("3", e) : e \in BOOLEAN} \cup
            {FnErr(ToolError(v, m)) : v \in ToolErrorVariants, m \in ErrMsgs}

\* what a prompt's function can return: a text, or (hand-written only) a
\* PromptError
PromptReturns(name) ==
    CASE name = "review_code" -> {FnOk("Please review this code", FALSE)}
      [] name = "manual_prompt" ->
            {FnOk("text", FALSE)} \cup
            {FnErr(PromptError(v, m)) : v \in PromptErrorVariants, m \in ErrMsgs}


(***************************************************************************)
(* MCPService: the handle_* methods.                                       *)
(***************************************************************************)
\* get_request_params
get_request_params(params) ==
    CASE params.t = "Map" -> [ok |-> TRUE, err |-> NoError]
      [] params.t = "Array" ->
            [ok |-> FALSE,
             err |-> RequestError("InvalidParams", "Parameters must be a map-like object")]
      [] params.t = "None" ->
            [ok |-> FALSE, err |-> RequestError("InvalidParams", "The request was empty")]

\* MCPService::capabilities, CapabilitiesBuilder
capabilities ==
    ServerCapabilities(IF prompts # {} THEN Capability(FALSE) ELSE NoCapability,
                       NoCapability,
                       IF tools # {} THEN Capability(FALSE) ELSE NoCapability)

handle_ping(req) == Ok(ResponseItemSuccess(req.id, Value("{}", <<>>, "absent", {}, "")))

\* the InitializeResult as a Value: text is its protocolVersion
InitializeResult ==
    [Value("InitializeResult", <<>>, "absent", {}, "2024-11-05") EXCEPT
        !.capabilities = capabilities,
        !.serverInfo = Implementation(server_name, version)]

\* handle_initialize refusing params that are no map, as the handlers of
\* tools/call and prompts/get do
handle_initializeCheckingParams(req) ==
    IF get_request_params(req.params).ok
    THEN Ok(ResponseItemSuccess(req.id, InitializeResult))
    ELSE Err(get_request_params(req.params).err)

handle_initialize(req) == Ok(ResponseItemSuccess(req.id, InitializeResult))

\* handle_tools_list on a registry that a call takes the tool out of
handle_tools_listForgettingCalled(req) ==
    Ok(ResponseItemSuccess(req.id,
        Value("ListToolsResult", <<>>, "absent",
              tools \ {request.msgs[k].params.name.s :
                            k \in {j \in 1..Len(tasks) : tasks[j].th = 1}},
              "")))

\* handle_tools_list refusing params that are no map, as the handlers of
\* tools/call and prompts/get do
handle_tools_listCheckingParams(req) ==
    IF get_request_params(req.params).ok
    THEN Ok(ResponseItemSuccess(req.id, Value("ListToolsResult", <<>>, "absent", tools, "")))
    ELSE Err(get_request_params(req.params).err)

\* MCPService::list_tools, handle_tools_list
handle_tools_list(req) ==
    Ok(ResponseItemSuccess(req.id, Value("ListToolsResult", <<>>, "absent", tools, "")))

\* MCPService::list_resources, handle_resources_list
handle_resources_list(req) ==
    Ok(ResponseItemSuccess(req.id, Value("ListResourcesResult", <<>>, "absent", {}, "")))

\* MCPService::list_prompts, handle_prompts_list
handle_prompts_list(req) ==
    Ok(ResponseItemSuccess(req.id, Value("ListPromptsResult", <<>>, "absent", prompts, "")))

\* read_resource finding no resource under the uri
read_resourceNotFound(uri) == [variant |-> "NotFound", msg |-> uri]

\* MCPService::read_resource: a stub that always fails
read_resource(uri) ==
    [variant |-> "ExecutionError", msg |-> "Reading resources is not yet implemented"]

handle_resources_read(req) ==
    IF ~get_request_params(req.params).ok
    THEN Err(get_request_params(req.params).err)
    ELSE IF req.params.uri.t # "str"
    THEN Err(RequestError("InvalidParams", "Missing resource URI"))
    ELSE Err(RequestErrorFromResourceError(read_resource(req.params.uri.s)))

\* A step of a future that may suspend in user code: it is finished with a
\* result (next = "done"), it panicked (next = "panicked"), or it is inside
\* the tool function, the prompt function or the notification handler.
\* th, tb: ToolHandler::call was entered / the tool function was run;
\* ph: PromptHandler::call was entered; sk: the notification handler ran.
Step(next, result, th, tb, ph, sk) ==
    [next |-> next, result |-> result, th |-> th, tb |-> tb, ph |-> ph, sk |-> sk]

\* the end of handle_tools_call, from the result of call_tool(..).await on:
\* `?` converts a ToolError with From<ToolError> for RequestError
ToolsCallFinish(req, r, th, tb) ==
    IF r.ok
    THEN Step("done", Ok(ResponseItemSuccess(req.id, CallToolResultToValue(r.value))),
              th, tb, 0, 0)
    ELSE IF RequestErrorFromToolError(r.err).panic
    THEN Step("panicked", Err(NoError), th, tb, 0, 0)
    ELSE Step("done", Err(RequestErrorFromToolError(r.err).err), th, tb, 0, 0)

\* the #[tool] functions that have parameters other than Inject<T>: the
\* macro gives them a parameter record
ToolsWithParameters == {"calculator", "increment", "decrement"}

\* ToolHandlerCall without the deserialisation of the parameters
ToolHandlerCallUnchecked(req, name) ==
    IF name \in CounterTools /\ ~(StateTypes \subseteq ctx)
    THEN Step("panicked", Err(NoError), 1, 0, 0, 0)
    ELSE Step("in_tool", Err(NoError), 1, 1, 0, 0)

\* ToolHandlerCall deserialising the parameter record for every tool
ToolHandlerCallAlwaysDeserialising(req, name) ==
    IF ~(req.params.arguments.t = "object" /\ req.params.arguments.fits)
    THEN ToolsCallFinish(req,
            ToolErr(ToolError("InvalidParameters", "Missing or incorrect tool arguments")),
            1, 0)
    ELSE IF name \in CounterTools /\ ~(StateTypes \subseteq ctx)
    THEN Step("panicked", Err(NoError), 1, 0, 0, 0)
    ELSE Step("in_tool", Err(NoError), 1, 1, 0, 0)

\* ToolHandler::call as #[tool] generates it, up to the call of the
\* function: a tool with parameters deserialises them first, and every
\* Inject<T> parameter is taken from the context, which panics when T was
\* not registered
ToolHandlerCall(req, name) ==
    IF name \in ToolsWithParameters
            /\ ~(req.params.arguments.t = "object" /\ req.params.arguments.fits)
    THEN ToolsCallFinish(req,
            ToolErr(ToolError("InvalidParameters", "Missing or incorrect tool arguments")),
            1, 0)
    ELSE IF name \in CounterTools /\ ~(StateTypes \subseteq ctx)
    THEN Step("panicked", Err(NoError), 1, 0, 0, 0)
    ELSE Step("in_tool", Err(NoError), 1, 1, 0, 0)

\* handle_tools_call deserialising the arguments before the tool is looked up
handle_tools_callSchemaFirst(req) ==
    IF ~get_request_params(req.params).ok
    THEN Step("done", Err(get_request_params(req.params).err), 0, 0, 0, 0)
    ELSE IF req.params.name.t # "str"
    THEN Step("done", Err(RequestError("InvalidParams", "No tool name was provided")),
              0, 0, 0, 0)
    ELSE IF req.params.name.s \in ToolsWithParameters
            /\ ~(req.params.arguments.t = "object" /\ req.params.arguments.fits)
    THEN ToolsCallFinish(req,
            ToolErr(ToolError("InvalidParameters", "Missing or incorrect tool arguments")),
            0, 0)
    ELSE IF req.params.name.s \notin tools
    THEN ToolsCallFinish(req, ToolErr(ToolError("NotFound", req.params.name.s)), 0, 0)
    ELSE ToolHandlerCall(req, req.params.name.s)

\* handle_tools_call without the check of the name
handle_tools_callNameUnchecked(req) ==
    IF ~get_request_params(req.params).ok
    THEN Step("done", Err(get_request_params(req.params).err), 0, 0, 0, 0)
    ELSE IF req.params.name.s \notin tools
    THEN ToolsCallFinish(req, ToolErr(ToolError("NotFound", req.params.name.s)), 0, 0)
    ELSE ToolHandlerCall(req, req.params.name.s)

\* handle_tools_call and MCPService::call_tool, up to tool.call(..)
handle_tools_call(req) ==
    IF ~get_request_params(req.params).ok
    THEN Step("done", Err(get_request_params(req.params).err), 0, 0, 0, 0)
    ELSE IF req.params.name.t # "str"
    THEN Step("done", Err(RequestError("InvalidParams", "No tool name was provided")),
              0, 0, 0, 0)
    ELSE IF req.params.name.s \notin tools
    THEN ToolsCallFinish(req, ToolErr(ToolError("NotFound", req.params.name.s)), 0, 0)
    ELSE ToolHandlerCall(req, req.params.name.s)

\* the tool function returned ret: into_call_tool_result for a #[tool]
\* function, the value itself for a hand-written handler
ToolCallResult(name, ret) ==
    IF name = "manual"
    THEN IF ret.ok
         THEN ToolOk(CallToolResult(<<ContentText(ret.text)>>, ret.is_error))
         ELSE ToolErr(ret.err)
    ELSE IF ret = FnUnit
    THEN UnitIntoCallToolResult
    ELSE ResultIntoCallToolResult(ret)

\* PromptHandler::call as #[prompt] generates it, up to the call of the
\* function: every required parameter is taken from the arguments first
PromptHandlerCall(req, name) ==
    IF name = "review_code" /\ ~req.params.arguments.fits
    THEN Step("done",
              Err(RequestErrorFromPromptError(
                    PromptError("InvalidParameters", "Missing required parameter: code"))),
              0, 0, 1, 0)
    ELSE Step("in_prompt", Err(NoError), 0, 0, 1, 0)

\* handle_prompts_get asking for the arguments only after the prompt is found
handle_prompts_getArgumentsOptional(req) ==
    IF ~get_request_params(req.params).ok
    THEN Step("done", Err(get_request_params(req.params).err), 0, 0, 0, 0)
    ELSE IF req.params.name.t # "str"
    THEN Step("done", Err(RequestError("InvalidParams", "Missing prompt name")), 0, 0, 0, 0)
    ELSE IF req.params.name.s \notin prompts
    THEN Step("done",
              Err(RequestErrorFromPromptError(PromptError("NotFound", req.params.name.s))),
              0, 0, 0, 0)
    ELSE PromptHandlerCall(req, req.params.name.s)

\* handle_prompts_get and MCPService::get_prompt, up to prompt.call(..)
handle_prompts_get(req) ==
    IF ~get_request_params(req.params).ok
    THEN Step("done", Err(get_request_params(req.params).err), 0, 0, 0, 0)
    ELSE IF req.params.name.t # "str"
    THEN Step("done", Err(RequestError("InvalidParams", "Missing prompt name")), 0, 0, 0, 0)
    ELSE IF req.params.arguments.t # "object"
    THEN Step("done", Err(RequestError("InvalidParams", "Missing arguments object")),
              0, 0, 0, 0)
    ELSE IF req.params.name.s \notin prompts
    THEN Step("done",
              Err(RequestErrorFromPromptError(PromptError("NotFound", req.params.name.s))),
              0, 0, 0, 0)
    ELSE PromptHandlerCall(req, req.params.name.s)

\* the end of handle_prompts_get, from the result of get_prompt(..).await on
PromptsGetFinish(req, ret) ==
    IF ret.ok
    THEN Step("done",
              Ok(ResponseItemSuccess(req.id,
                    Value("GetPromptResult", <<ContentText(ret.text)>>, "absent", {}, "user"))),
              0, 0, 1, 0)
    ELSE Step("done", Err(RequestErrorFromPromptError(ret.err)), 0, 0, 1, 0)

\* Route with the fallback arm answering as ping does
RouteUnknownAsPing(req) ==
    CASE req.method = "initialize" -> Step("done", handle_initialize(req), 0, 0, 0, 0)
      [] req.method = "tools/list" -> Step("done", handle_tools_list(req), 0, 0, 0, 0)
      [] req.method = "tools/call" -> handle_tools_call(req)
      [] req.method = "resources/list" ->
            Step("done", handle_resources_list(req), 0, 0, 0, 0)
      [] req.method = "resources/read" ->
            Step("done", handle_resources_read(req), 0, 0, 0, 0)
      [] req.method = "prompts/list" -> Step("done", handle_prompts_list(req), 0, 0, 0, 0)
      [] req.method = "prompts/get" -> handle_prompts_get(req)
      [] OTHER -> Step("done", handle_ping(req), 0, 0, 0, 0)

\* the match on req.method of MCPService::call
Route(req) ==
    CASE req.method = "ping" -> Step("done", handle_ping(req), 0, 0, 0, 0)
      [] req.method = "initialize" -> Step("done", handle_initialize(req), 0, 0, 0, 0)
      [] req.method = "tools/list" -> Step("done", handle_tools_list(req), 0, 0, 0, 0)
      [] req.method = "tools/call" -> handle_tools_call(req)
      [] req.method = "resources/list" ->
            Step("done", handle_resources_list(req), 0, 0, 0, 0)
      [] req.method = "resources/read" ->
            Step("done", handle_resources_read(req), 0, 0, 0, 0)
      [] req.method = "prompts/list" -> Step("done", handle_prompts_list(req), 0, 0, 0, 0)
      [] req.method = "prompts/get" -> handle_prompts_get(req)
      [] OTHER ->
            Step("done", Err(RequestError("MethodNotFound", req.method)), 0, 0, 0, 0)

\* the end of the Request arm of MCPService::call: an Err result becomes an
\* error item with the request's id
RequestResponse(id, result) ==
    IF result.ok THEN result.item ELSE ResponseItemError(id, ErrorDataFromRequestError(result.err))

\* the Invalid arm of MCPService::call
InvalidResponse(id) ==
    ResponseItemError(id, ErrorDataNew("InvalidRequest", "Invalid request"))

(***************************************************************************)
(* The futures: one task per message.                                      *)
(***************************************************************************)
\* pc: "created", "in_tool", "in_prompt", "in_sink", "done", "panicked";
\* out: what MCPService::call returned; ret: what the tool or prompt function
\* returned, once it has; at: history kept where the order in which the
\* futures finish is looked at, the rank of a future among the futures of
\* the call that finished after suspending in a tool (0 otherwise)
NoRet == [ok |-> FALSE, text |-> "", is_error |-> FALSE, err |-> NoError]
Task(pc, out, th, tb, ph, sk) ==
    [pc |-> pc, out |-> out, th |-> th, tb |-> tb, ph |-> ph, sk |-> sk, ret |-> NoRet,
     at |-> 0]

\* the task of a Request after a step of its handler
RequestTask(req, st) ==
    Task(st.next,
         IF st.next = "done" THEN Some(RequestResponse(req.id, st.result)) ELSE None,
         st.th, st.tb, st.ph, st.sk)

\* CallStart answering a notification as it answers an invalid message
CallStartAnsweringNotifications(msg) ==
    CASE msg.kind = "Request" -> RequestTask(msg, Route(msg))
      [] OTHER -> Task("done", Some(InvalidResponse(msg.id)), 0, 0, 0, 0)

\* CallStart handing an invalid message to the notification handler too
CallStartSinkingInvalid(msg) ==
    CASE msg.kind = "Request" -> RequestTask(msg, Route(msg))
      [] msg.kind = "Notification" ->
            IF notification_handler
            THEN Task("in_sink", None, 0, 0, 0, 1)
            ELSE Task("done", None, 0, 0, 0, 0)
      [] msg.kind = "Invalid" ->
            Task("done", Some(InvalidResponse(msg.id)), 0, 0, 0,
                 IF notification_handler THEN 1 ELSE 0)

\* MCPService::call(msg), polled for the first time
CallStart(msg) ==
    CASE msg.kind = "Request" -> RequestTask(msg, Route(msg))
      [] msg.kind = "Notification" ->
            IF notification_handler
            THEN Task("in_sink", None, 0, 0, 0, 1)
            ELSE Task("done", None, 0, 0, 0, 0)
      [] msg.kind = "Invalid" -> Task("done", Some(InvalidResponse(msg.id)), 0, 0, 0, 0)

\* FilterMap keeping the successes only
RECURSIVE FilterMapDroppingErrors(_)
FilterMapDroppingErrors(outs) ==
    IF outs = <<>>
    THEN <<>>
    ELSE (IF Head(outs).some /\ Head(outs).item.kind = "Success"
          THEN <<Head(outs).item>>
          ELSE <<>>) \o FilterMapDroppingErrors(Tail(outs))

\* .filter_map(Result::unwrap).collect()
RECURSIVE FilterMap(_)
FilterMap(outs) ==
    IF outs = <<>>
    THEN <<>>
    ELSE (IF Head(outs).some THEN <<Head(outs).item>> ELSE <<>>) \o FilterMap(Tail(outs))

\* Response::Single / Response::Batch; "Pending" while the call runs
ResponsePending == [kind |-> "Pending", item |-> None, items |-> <<>>]
ResponseSingle(item) == [kind |-> "Single", item |-> item, items |-> <<>>]
ResponseBatch(items) == [kind |-> "Batch", item |-> None, items |-> items]

\* the empty batch answered with a batch of one error
EmptyBatchResponseAsBatch ==
    ResponseBatch(<<ResponseItemError(RequestIdNull,
        ErrorDataNew("InvalidRequest", "Invalid request: batch is empty"))>>)

\* the answer to an empty batch
EmptyBatchResponse ==
    ResponseSingle(Some(ResponseItemError(RequestIdNull,
        ErrorDataNew("InvalidRequest", "Invalid request: batch is empty"))))

(***************************************************************************)
(* The documents the client sends.                                         *)
(***************************************************************************)
JsonRpcs == {JAbsent, JStr("2.0"), JStr("1.0")}
Ids == {JAbsent, JNull, JNum(-1), JStr("a"), JBool} \cup {JNum(n) : n \in 1..MaxId}
Methods ==
    {JAbsent, JNum(1)} \cup
    {JStr(m) : m \in {"ping", "initialize", "tools/list", "tools/call", "resources/list",
                      "resources/read", "prompts/list", "prompts/get", "nope",
                      "notifications/initialized"}}
Names == {JAbsent, JNum(1), JStr("nope")} \cup {JStr(n) : n \in ToolNames \cup PromptNames}
Arguments == {ArgAbsent, ArgScalar, ArgObject(TRUE), ArgObject(FALSE)}
ParamsSent ==
    {PAbsent, PNull, PScalar, PArray, PObject(JAbsent, ArgAbsent, JStr("file:///a"))} \cup
    {PObject(n, a, JAbsent) : n \in Names, a \in Arguments}
Envelopes ==
    {JObject(v, i, m, p) : v \in JsonRpcs, i \in Ids, m \in Methods, p \in ParamsSent}

\* the elements batches are made of: a call without handler, calls that run
\* a tool, a notification, a call with a null id, a message with an id that
\* is no RequestId, and two malformed messages
BatchElems ==
    { JObject(JStr("2.0"), JNum(1), JStr("ping"), PAbsent),
      JObject(JStr("2.0"), JStr("a"), JStr("tools/call"),
              PObject(JStr("calculator"), ArgObject(TRUE), JAbsent)),
      JObject(JStr("2.0"), JNum(MaxId), JStr("tools/call"),
              PObject(JStr("manual"), ArgAbsent, JAbsent)),
      JObject(JStr("2.0"), JAbsent, JStr("notifications/initialized"), PAbsent),
      JObject(JStr("2.0"), JNull, JStr("ping"), PAbsent),
      JObject(JStr("2.0"), JNum(-1), JStr("ping"), PAbsent),
      JObject(JStr("1.0"), JNum(1), JStr("ping"), PAbsent),
      JScalar }

Batches == UNION {[1..n -> BatchElems] : n \in 0..MaxBatch}

(***************************************************************************)
(* Actions.                                                                *)
(***************************************************************************)
\* MCPServiceBuilder::build: the service with what the builder was given; the
\* Counter registered with with_state is Counter::default()
build(b) ==
    /\ server_name = b.name
    /\ version = b.version
    /\ tools = b.tools
    /\ prompts = b.prompts
    /\ notification_handler = b.notification_handler
    /\ ctx = b.ctx
    /\ counter = 0
    /\ ledger = [increments |-> 0, decrements |-> 0, calls |-> 0]

\* no message and no error code is being serialised
CodecsUnused ==
    /\ codec = [stage |-> "unused"]
    /\ error_codec = [stage |-> "unused"]

\* no ByteTransport is being read
ByteTransportUnused == byte_transport = [stage |-> "unused"]

\* no builder is being followed
RegistryUnused == registry = [stage |-> "unused"]

Init ==
    /\ \E b \in Builds : build(b)
    /\ CodecsUnused
    /\ ByteTransportUnused
    /\ RegistryUnused
    /\ phase = "idle"
    /\ wire = WireNone
    /\ request = RequestNone
    /\ tasks = <<>>
    /\ response = ResponsePending
    /\ transport = <<>>
    /\ has_errored = FALSE
    /\ lines = <<>>
    /\ written = <<>>
    /\ log = <<>>

\* MCPRequestService::call(req), up to the first await: an empty batch is
\* answered at once, any other request makes one future per message
Start(doc) ==
    /\ phase = "idle"
    /\ RequestDeserialize(doc).ok
    /\ wire' = doc
    /\ request' = RequestDeserialize(doc)
    /\ IF request'.kind = "Batch" /\ request'.msgs = <<>>
       THEN /\ tasks' = <<>>
            /\ response' = EmptyBatchResponse
            /\ phase' = "done"
       ELSE /\ tasks' = [i \in 1..Len(request'.msgs) |-> Task("created", None, 0, 0, 0, 0)]
            /\ response' = ResponsePending
            /\ phase' = "running"
    /\ UNCHANGED <<config, aside, state, serving>>

\* the client sends one message
ReceiveSingle ==
    /\ phase = "idle"
    /\ \E v \in Envelopes : Start(WireSingle(v))

\* the client sends an array of messages
ReceiveBatch ==
    /\ phase = "idle"
    /\ \E vs \in Batches : Start(WireBatch(vs))

\* a task moves; a panic unwinds through join_all and ends the whole call
Move(i, task) ==
    /\ tasks' = [tasks EXCEPT ![i] = task]
    /\ phase' = IF task.pc = "panicked" THEN "panicked" ELSE phase
    /\ UNCHANGED <<config, aside, wire, request, response, serving>>

\* join_all polls the futures in the order of the messages: the first poll
\* of future i runs MCPService::call(msg) until it finishes or suspends
Poll(i) ==
    /\ phase = "running"
    /\ tasks[i].pc = "created"
    /\ \A j \in 1..(i - 1) : tasks[j].pc # "created"
    /\ Move(i, CallStart(request.msgs[i]))
    /\ UNCHANGED state

\* the counter after the function of a tool ran with this quantity
CounterAfter(tool, quantity) ==
    CASE tool = "increment" -> fetch_add(counter, quantity)
      [] tool = "decrement" -> fetch_sub(counter, quantity)
      [] OTHER -> counter

\* the history after the function of a tool ran with this quantity
LedgerAfter(tool, quantity) ==
    CASE tool = "increment" ->
            [ledger EXCEPT !.increments = @ + quantity, !.calls = @ + 1]
      [] tool = "decrement" ->
            [ledger EXCEPT !.decrements = @ + quantity, !.calls = @ + 1]
      [] OTHER -> ledger

\* the tool function of task i returns
ToolReturn(i) ==
    /\ phase = "running"
    /\ tasks[i].pc = "in_tool"
    /\ counter' = CounterAfter(request.msgs[i].params.name.s,
                               request.msgs[i].params.arguments.quantity)
    /\ ledger' = LedgerAfter(request.msgs[i].params.name.s,
                             request.msgs[i].params.arguments.quantity)
    /\ \E ret \in ToolReturns(request.msgs[i].params.name.s) :
        Move(i, [RequestTask(request.msgs[i],
                    ToolsCallFinish(request.msgs[i],
                        ToolCallResult(request.msgs[i].params.name.s, ret),
                        tasks[i].th, tasks[i].tb))
                 EXCEPT !.ret = ret])

\* ToolReturn, recording the rank at which the future finished
ToolReturnRanked(i) ==
    /\ phase = "running"
    /\ tasks[i].pc = "in_tool"
    /\ counter' = CounterAfter(request.msgs[i].params.name.s,
                               request.msgs[i].params.arguments.quantity)
    /\ ledger' = LedgerAfter(request.msgs[i].params.name.s,
                             request.msgs[i].params.arguments.quantity)
    /\ \E ret \in ToolReturns(request.msgs[i].params.name.s) :
        Move(i, [RequestTask(request.msgs[i],
                    ToolsCallFinish(request.msgs[i],
                        ToolCallResult(request.msgs[i].params.name.s, ret),
                        tasks[i].th, tasks[i].tb))
                 EXCEPT !.ret = ret,
                        !.at = Cardinality({j \in 1..Len(tasks) : tasks[j].at > 0}) + 1])

\* the prompt function of task i returns
PromptReturn(i) ==
    /\ phase = "running"
    /\ tasks[i].pc = "in_prompt"
    /\ \E ret \in PromptReturns(request.msgs[i].params.name.s) :
        Move(i, [RequestTask(request.msgs[i], PromptsGetFinish(request.msgs[i], ret))
                 EXCEPT !.ret = ret])
    /\ UNCHANGED state

\* the notification handler of task i returns
SinkReturn(i) ==
    /\ phase = "running"
    /\ tasks[i].pc = "in_sink"
    /\ Move(i, Task("done", None, 0, 0, 0, tasks[i].sk))
    /\ UNCHANGED state

\* Respond collecting the results in the order in which the futures
\* finished: those that never suspended, then the others by their rank
RespondInCompletionOrder ==
    /\ phase = "running"
    /\ \A i \in 1..Len(tasks) : tasks[i].pc = "done"
    /\ response' =
        IF request.kind = "Single"
        THEN ResponseSingle(tasks[1].out)
        ELSE LET key(i) == tasks[i].at * (Len(tasks) + 1) + i
                 nth(k) == CHOOSE i \in 1..Len(tasks) :
                    Cardinality({j \in 1..Len(tasks) : key(j) < key(i)}) = k - 1
             IN ResponseBatch(FilterMap([k \in 1..Len(tasks) |-> tasks[nth(k)].out]))
    /\ phase' = "done"
    /\ UNCHANGED <<config, aside, state, wire, request, tasks, serving>>

\* every future is finished: Response::Single of the one result, or
\* Response::Batch of the results that are Some, in the order of the messages
Respond ==
    /\ phase = "running"
    /\ \A i \in 1..Len(tasks) : tasks[i].pc = "done"
    /\ response' = IF request.kind = "Single"
                   THEN ResponseSingle(tasks[1].out)
                   ELSE ResponseBatch(FilterMap([i \in 1..Len(tasks) |-> tasks[i].out]))
    /\ phase' = "done"
    /\ UNCHANGED <<config, aside, state, wire, request, tasks, serving>>

\* the caller takes the Response; the service is ready for the next call
Deliver ==
    /\ phase = "done"
    /\ phase' = "idle"
    /\ wire' = WireNone
    /\ request' = RequestNone
    /\ tasks' = <<>>
    /\ response' = ResponsePending
    /\ UNCHANGED <<config, aside, state, serving>>

Next ==
    \/ ReceiveSingle
    \/ ReceiveBatch
    \/ \E i \in 1..Len(tasks) : Poll(i)
    \/ \E i \in 1..Len(tasks) : ToolReturn(i)
    \/ \E i \in 1..Len(tasks) : PromptReturn(i)
    \/ \E i \in 1..Len(tasks) : SinkReturn(i)
    \/ Respond
    \/ Deliver

Spec == Init /\ [][Next]_vars

(***************************************************************************)
(* The counter service: three tools that share one Counter, registered     *)
(* with with_state.  Every call runs on a clone of the service; the clones *)
(* hold the same Rc<Context>, the Inject<Counter> in it the same Arc.      *)
(***************************************************************************)
\* the quantities the client sends: 1, i32::MAX, i32::MAX + 1, u32::MAX
Quantities == {1, 2 ^ (CounterBits - 1) - 1, 2 ^ (CounterBits - 1), 2 ^ CounterBits - 1}

\* tools/call of a counter tool
CounterCall(tool, arguments) ==
    JObject(JStr("2.0"), JNum(1), JStr("tools/call"), PObject(JStr(tool), arguments, JAbsent))

\* the calls that reach a tool: increment and decrement with a quantity,
\* get_value without arguments and with the arguments {}
CounterCalls ==
    {CounterCall(tool, ArgQuantity(q)) : tool \in {"increment", "decrement"}, q \in Quantities}
    \cup {CounterCall("get_value", ArgAbsent), CounterCall("get_value", ArgObject(TRUE))}

\* calls that are refused: arguments missing or of the wrong shape for a
\* tool with parameters, and tools/call, prompts/get and resources/read
\* without params, with params that are an array, or without a string as
\* name or uri
RefusedCalls ==
    {CounterCall("increment", ArgAbsent), CounterCall("decrement", ArgObject(FALSE))}
    \cup {JObject(JStr("2.0"), JStr("a"), JStr(m), ps) :
            m \in {"tools/call", "prompts/get", "resources/read"},
            ps \in {PAbsent, PArray, PObject(JAbsent, ArgQuantity(1), JAbsent),
                    PObject(JNum(1), ArgQuantity(1), JNum(1))}}

\* the elements of the batches sent to the counter service
CounterBatchElems ==
    {CounterCall("increment", ArgQuantity(1)),
     CounterCall("decrement", ArgQuantity(2 ^ CounterBits - 1)),
     CounterCall("get_value", ArgAbsent),
     CounterCall("get_value", ArgObject(TRUE)),
     JObject(JStr("2.0"), JStr("a"), JStr("tools/call"), PAbsent)}

CounterInit ==
    /\ build(CounterBuild)
    /\ CodecsUnused
    /\ ByteTransportUnused
    /\ RegistryUnused
    /\ phase = "idle"
    /\ wire = WireNone
    /\ request = RequestNone
    /\ tasks = <<>>
    /\ response = ResponsePending
    /\ transport = <<>>
    /\ has_errored = FALSE
    /\ lines = <<>>
    /\ written = <<>>
    /\ log = <<>>

\* the client sends one call
CounterReceiveSingle ==
    /\ phase = "idle"
    /\ ledger.calls < MaxCalls
    /\ \E v \in CounterCalls \cup RefusedCalls : Start(WireSingle(v))

\* the client sends two calls in a batch
CounterReceiveBatch ==
    /\ phase = "idle"
    /\ ledger.calls < MaxCalls
    /\ \E vs \in [1..2 -> CounterBatchElems] : Start(WireBatch(vs))

CounterNext ==
    \/ CounterReceiveSingle
    \/ CounterReceiveBatch
    \/ \E i \in 1..Len(tasks) : Poll(i)
    \/ \E i \in 1..Len(tasks) : ToolReturn(i)
    \/ Respond
    \/ Deliver

CounterSpec == CounterInit /\ [][CounterNext]_vars

\* the counter service answering batches, with the order in which the
\* futures of a batch finish recorded
BatchNext ==
    \/ CounterReceiveBatch
    \/ \E i \in 1..Len(tasks) : Poll(i)
    \/ \E i \in 1..Len(tasks) : ToolReturnRanked(i)
    \/ Respond
    \/ Deliver

BatchSpec == CounterInit /\ [][BatchNext]_vars

(***************************************************************************)
(* serve / handle_connection: one connection, read line by line and given  *)
(* to a Service<SendableMessage>.                                          *)
(***************************************************************************)
\* what frame.next() yields: a line holding a JSON value, a line that is no
\* JSON, or an error of the line codec (an I/O error of the read)
Line(v) == [r |-> "line", v |-> v]
InvalidJsonLine == [r |-> "invalid_json", v |-> JScalar]
IoError == [r |-> "io_error", v |-> JScalar]

\* Result<SendableMessage, TransportError>
ParseOk(msg) == [ok |-> TRUE, msg |-> msg, err |-> ""]
ParseErr(err) == [ok |-> FALSE, msg |-> Invalid(RequestIdNull), err |-> err]

\* validate_jsonrpc_message: the value is an object whose jsonrpc is "2.0"
validate_jsonrpc_message(v) ==
    IF v.j # "object"
    THEN "Message must be a JSON object"
    ELSE IF v.jsonrpc # JStr("2.0")
    THEN "Missing or invalid JSON-RPC version"
    ELSE "Ok"

\* parse_message
parse_message(ev) ==
    CASE ev.r = "io_error" -> ParseErr("Io")
      [] ev.r = "invalid_json" -> ParseErr("Serialisation")
      [] validate_jsonrpc_message(ev.v) # "Ok" -> ParseErr("InvalidMessage")
      [] OTHER -> ParseOk(SendableMessageDeserialize(ev.v))

\* the Err arm of handle_connection: serialisation errors are logged at
\* debug level, every other error at error level; nothing is written
TransportErrorLog(n, err) ==
    [line |-> n,
     level |-> IF err = "Serialisation" THEN "debug" ELSE "error",
     what |-> IF err = "Serialisation"
              THEN "Transport error (serialization)"
              ELSE "Transport error"]

\* one item yielded by frame.next(): call is the index of the service call
\* made for it (0: none), st is "calling" until process_message is over
LineRecord(ev, call, st) == [ev |-> ev, call |-> call, st |-> st]

\* the lines a client sends
ReadEvents ==
    { Line(JObject(JStr("2.0"), JNum(1), JStr("ping"), PAbsent)),
      Line(JObject(JStr("2.0"), JStr("a"), JStr("tools/call"),
                   PObject(JStr("calculator"), ArgObject(TRUE), JAbsent))),
      Line(JObject(JStr("2.0"), JNum(1), JStr("tools/call"),
                   PObject(JStr("manual"), ArgAbsent, JAbsent))),
      Line(JObject(JStr("2.0"), JNum(1), JStr("tools/call"),
                   PObject(JStr("get_value"), ArgAbsent, JAbsent))),
      Line(JObject(JStr("2.0"), JNum(1), JStr("prompts/get"),
                   PObject(JStr("review_code"), ArgObject(TRUE), JAbsent))),
      Line(JObject(JStr("2.0"), JAbsent, JStr("notifications/initialized"), PAbsent)),
      Line(JObject(JStr("2.0"), JNum(1), JStr("tools/list"), PAbsent)),
      Line(JObject(JStr("2.0"), JStr("a"), JStr("prompts/list"), PAbsent)),
      Line(JObject(JStr("1.0"), JNum(1), JStr("initialize"), PAbsent)),
      Line(JObject(JAbsent, JNum(1), JStr("initialize"), PAbsent)),
      Line(JObject(JStr("2.0"), JNum(1), JNum(1), PAbsent)),
      Line(JArray),
      InvalidJsonLine,
      IoError }

Transports == UNION {[1..n -> ReadEvents] : n \in 0..MaxLines}

ServeInit ==
    /\ \E b \in Builds : build(b)
    /\ CodecsUnused
    /\ ByteTransportUnused
    /\ RegistryUnused
    /\ phase = "running"
    /\ wire = WireNone
    /\ request = [ok |-> TRUE, kind |-> "Lines", msgs |-> <<>>]
    /\ tasks = <<>>
    /\ response = ResponsePending
    /\ transport \in Transports
    /\ has_errored = FALSE
    /\ lines = <<>>
    /\ written = <<>>
    /\ log = <<>>

\* the loop reads without waiting for the line in flight
CanReadAlways == TRUE

\* the loop is at frame.next().await: process_message of the line before,
\* which handle_connection awaits, is over
CanRead == IF lines = <<>> THEN TRUE ELSE lines[Len(lines)].st = "done"

\* frame.next() yields None at the end of the input: serve returns Ok(())
ServeEof ==
    /\ phase = "running"
    /\ CanRead
    /\ transport = <<>>
    /\ phase' = "closed"
    /\ has_errored' = FALSE
    /\ UNCHANGED <<config, aside, state, wire, request, tasks, response, transport, lines, written, log>>

\* frame.next() yields None after it yielded an error (tokio_util's Framed
\* ends the stream once after an error of the decoder or of the read; the
\* source does not fix the version, and ServeRead covers a Framed that goes
\* on): the while-let loop ends and serve returns Ok(())
ServeStreamEnds ==
    /\ phase = "running"
    /\ CanRead
    /\ has_errored
    /\ phase' = "closed"
    /\ has_errored' = FALSE
    /\ UNCHANGED <<config, aside, state, wire, request, tasks, response, transport, lines, written, log>>

\* frame.next() yields an item; parse_message; then process_message up to
\* the call of the service, or the Err arm.  process_message has arms for
\* Request and Notification only: for an Invalid message the model takes
\* both readings, no call at all and a call as for the other two
ServeRead ==
    /\ phase = "running"
    /\ CanRead
    /\ transport # <<>>
    /\ LET ev == Head(transport)
           p == parse_message(ev)
           n == Len(lines) + 1
       IN /\ transport' = Tail(transport)
          /\ has_errored' = (ev.r = "io_error")
          /\ IF ~p.ok
             THEN /\ lines' = Append(lines, LineRecord(ev, 0, "done"))
                  /\ log' = Append(log, TransportErrorLog(n, p.err))
                  /\ UNCHANGED <<request, tasks>>
             ELSE \E called \in BOOLEAN :
                    /\ (p.msg.kind # "Invalid") => called
                    /\ IF called
                       THEN /\ request' = [request EXCEPT !.msgs = Append(@, p.msg)]
                            /\ tasks' = Append(tasks, Task("created", None, 0, 0, 0, 0))
                            /\ lines' = Append(lines, LineRecord(ev, Len(tasks) + 1, "calling"))
                       ELSE /\ lines' = Append(lines, LineRecord(ev, 0, "done"))
                            /\ UNCHANGED <<request, tasks>>
                    /\ UNCHANGED log
    /\ UNCHANGED <<config, aside, state, phase, wire, response, written>>

\* the service call returned: write_message of a Request's response, which
\* may fail; the failure is logged by handle_connection
ServeWrite ==
    /\ phase = "running"
    /\ lines # <<>>
    /\ LET n == Len(lines)
           i == lines[n].call
       IN /\ lines[n].st = "calling"
          /\ tasks[i].pc = "done"
          /\ lines' = [lines EXCEPT ![n].st = "done"]
          /\ IF request.msgs[i].kind # "Notification" /\ tasks[i].out.some
             THEN \E sent \in BOOLEAN :
                    IF sent
                    THEN /\ written' = Append(written, [line |-> n, item |-> tasks[i].out.item])
                         /\ UNCHANGED log
                    ELSE /\ log' = Append(log, [line |-> n, level |-> "error",
                                                what |-> "Error processing message"])
                         /\ UNCHANGED written
             ELSE UNCHANGED <<written, log>>
    /\ UNCHANGED <<config, aside, state, phase, wire, request, tasks, response, transport, has_errored>>

ServeNext ==
    \/ ServeRead
    \/ ServeEof
    \/ ServeStreamEnds
    \/ \E i \in 1..Len(tasks) : Poll(i)
    \/ \E i \in 1..Len(tasks) : ToolReturn(i)
    \/ \E i \in 1..Len(tasks) : PromptReturn(i)
    \/ \E i \in 1..Len(tasks) : SinkReturn(i)
    \/ ServeWrite

ServeSpec == ServeInit /\ [][ServeNext]_vars

(***************************************************************************)
(* middleware::tracing: the message service wrapped in TracingLayer.       *)
(***************************************************************************)
\* <TracingService as Service<SendableMessage>>::call: the method and the
\* params are read for the span, with unreachable!() in the Invalid arms,
\* then the inner service is called
TracingServiceCall(msg) ==
    IF msg.kind = "Invalid"
    THEN Task("panicked", None, 0, 0, 0, 0)
    ELSE CallStart(msg)

\* the first poll of future i of the wrapped service
TracedPoll(i) ==
    /\ phase = "running"
    /\ tasks[i].pc = "created"
    /\ \A j \in 1..(i - 1) : tasks[j].pc # "created"
    /\ Move(i, TracingServiceCall(request.msgs[i]))
    /\ UNCHANGED state

TracedNext ==
    \/ ReceiveSingle
    \/ ReceiveBatch
    \/ \E i \in 1..Len(tasks) : TracedPoll(i)
    \/ \E i \in 1..Len(tasks) : ToolReturn(i)
    \/ \E i \in 1..Len(tasks) : PromptReturn(i)
    \/ \E i \in 1..Len(tasks) : SinkReturn(i)
    \/ Respond
    \/ Deliver

TracedSpec == Init /\ [][TracedNext]_vars

(***************************************************************************)
(* Serialisation (the Serialize impls of kuri_mcp_protocol::jsonrpc): a    *)
(* SendableMessage is serialised and the JSON parsed again; an ErrorCode   *)
(* is serialised to its integer and that deserialised.                     *)
(***************************************************************************)
\* #[serde(untagged)] RequestId: a number, a string, or (the unit variant) null
RequestIdSerialize(id) ==
    CASE id.k = "Num" -> JNum(id.n)
      [] id.k = "Str" -> JStr(id.s)
      [] id.k = "Null" -> JNull

\* Option<Params> with skip_serializing_if = "Option::is_none": None leaves
\* the member out, an untagged Params is its array or its map
ParamsSerialize(params) ==
    CASE params.t = "None" -> PAbsent
      [] params.t = "Array" -> PArray
      [] params.t = "Map" -> PObject(params.name, params.arguments, params.uri)

\* SendableMessageSerialize leaving out an id that is Null
SendableMessageSerializeSkippingNullId(m) ==
    CASE m.kind = "Request" ->
            JObject(JStr("2.0"),
                    IF m.id = RequestIdNull THEN JAbsent ELSE RequestIdSerialize(m.id),
                    JStr(m.method), ParamsSerialize(m.params))
      [] m.kind = "Notification" ->
            JObject(JStr("2.0"), JAbsent, JStr(m.method), ParamsSerialize(m.params))
      [] m.kind = "Invalid" ->
            JObject(JAbsent, RequestIdSerialize(m.id), JAbsent, PAbsent)

\* #[derive(Serialize)] #[serde(untagged)] SendableMessage, with the derived
\* Serialize of MethodCall and Notification (jsonrpc is "2.0" by into = "String")
SendableMessageSerialize(m) ==
    CASE m.kind = "Request" ->
            JObject(JStr("2.0"), RequestIdSerialize(m.id), JStr(m.method),
                    ParamsSerialize(m.params))
      [] m.kind = "Notification" ->
            JObject(JStr("2.0"), JAbsent, JStr(m.method), ParamsSerialize(m.params))
      [] m.kind = "Invalid" ->
            JObject(JAbsent, RequestIdSerialize(m.id), JAbsent, PAbsent)

\* ErrorCode: one of the five standard variants, or Custom(i32)
ErrorCodeOf(variant) == [variant |-> variant, n |-> 0]
Custom(n) == [variant |-> "Custom", n |-> n]

\* impl Serialize for ErrorCode: serialize_i32(self.code())
ErrorCodeSerialize(c) == IF c.variant = "Custom" THEN c.n ELSE ErrorCodeCode(c.variant)

\* ErrorCodeDeserialize without the arms of the standard codes
ErrorCodeDeserializeAsCustom(n) == Custom(n)

\* impl Deserialize for ErrorCode
ErrorCodeDeserialize(n) ==
    CASE n = -32700 -> ErrorCodeOf("ParseError")
      [] n = -32600 -> ErrorCodeOf("InvalidRequest")
      [] n = -32601 -> ErrorCodeOf("MethodNotFound")
      [] n = -32602 -> ErrorCodeOf("InvalidParams")
      [] n = -32603 -> ErrorCodeOf("InternalError")
      [] OTHER -> Custom(n)

\* the messages that are serialised: method calls with every kind of id and
\* notifications, with params absent, an array, an empty map and a map
ValidMessages ==
    LET Sent == {"ping", "tools/call", "notifications/initialized"}
        Given == {ParamsNone, ParamsArray, ParamsMap(JAbsent, ArgAbsent, JAbsent),
                  ParamsMap(JStr("calculator"), ArgObject(TRUE), JAbsent)}
    IN {MethodCall(id, m, ps) :
            id \in {RequestIdNum(n) : n \in 0..MaxId} \cup {RequestIdStr("a"), RequestIdNull},
            m \in Sent, ps \in Given}
       \cup {Notification(m, ps) : m \in Sent, ps \in Given}

\* the error codes that are serialised: the standard variants, and Custom
\* with the standard codes, the ends of the i32 range and codes between
ErrorCodes ==
    {ErrorCodeOf(v) : v \in {"ParseError", "InvalidRequest", "MethodNotFound",
                             "InvalidParams", "InternalError"}}
    \cup {Custom(n) : n \in {-32700, -32600, -32601, -32602, -32603, -32000, -32099,
                             -1, 0, 1, -2147483647, 2147483647}}

CodecInit ==
    /\ \E b \in Builds : build(b)
    /\ ByteTransportUnused
    /\ RegistryUnused
    /\ \E m \in ValidMessages :
        codec = [stage |-> "new", message |-> m, serialised |-> JScalar, parsed |-> m]
    /\ \E c \in ErrorCodes :
        error_codec = [stage |-> "new", code |-> c, integer |-> 0, decoded |-> c]
    /\ phase = "idle"
    /\ wire = WireNone
    /\ request = RequestNone
    /\ tasks = <<>>
    /\ response = ResponsePending
    /\ transport = <<>>
    /\ has_errored = FALSE
    /\ lines = <<>>
    /\ written = <<>>
    /\ log = <<>>

\* serde_json::to_value(&message)
MessageSerialise ==
    /\ codec.stage = "new"
    /\ codec' = [codec EXCEPT !.stage = "serialised",
                              !.serialised = SendableMessageSerialize(codec.message)]
    /\ UNCHANGED <<config, state, phase, wire, request, tasks, response, serving, error_codec, byte_transport, registry>>

\* serde_json::from_value::<SendableMessage>(..)
MessageParse ==
    /\ codec.stage = "serialised"
    /\ codec' = [codec EXCEPT !.stage = "parsed",
                              !.parsed = SendableMessageDeserialize(codec.serialised)]
    /\ UNCHANGED <<config, state, phase, wire, request, tasks, response, serving, error_codec, byte_transport, registry>>

\* serde_json::to_value(&code)
ErrorCodeSerialise ==
    /\ error_codec.stage = "new"
    /\ error_codec' = [error_codec EXCEPT !.stage = "serialised",
                                          !.integer = ErrorCodeSerialize(error_codec.code)]
    /\ UNCHANGED <<config, state, phase, wire, request, tasks, response, serving, codec, byte_transport, registry>>

\* serde_json::from_value::<ErrorCode>(..)
ErrorCodeParse ==
    /\ error_codec.stage = "serialised"
    /\ error_codec' = [error_codec EXCEPT !.stage = "decoded",
                                          !.decoded = ErrorCodeDeserialize(error_codec.integer)]
    /\ UNCHANGED <<config, state, phase, wire, request, tasks, response, serving, codec, byte_transport, registry>>

CodecNext ==
    \/ MessageSerialise
    \/ MessageParse
    \/ ErrorCodeSerialise
    \/ ErrorCodeParse

CodecSpec == CodecInit /\ [][CodecNext]_vars

(***************************************************************************)
(* transport::byte_transport: ByteTransport as a Stream. The reader gives  *)
(* the bytes of the input in pieces of any length and may return Pending;  *)
(* BufReader keeps what it read and has not handed out; poll_next reads    *)
(* until the newline into a Vec it creates on every call.                  *)
(***************************************************************************)
NL == "\n"

\* the byte streams sent: lines of one and of several bytes
Inputs ==
    { <<"a", "b", NL, "c", NL>>,
      <<"a", NL, "b", "c", "d", NL>> }

\* the lines of a byte stream, each with its newline
RECURSIVE LinesOf(_, _)
LinesOf(bytes, line) ==
    IF bytes = <<>>
    THEN <<>>
    ELSE IF Head(bytes) = NL
    THEN <<Append(line, NL)>> \o LinesOf(Tail(bytes), <<>>)
    ELSE LinesOf(Tail(bytes), Append(line, Head(bytes)))

\* the index of the first newline of a non-empty sequence, 0 if it has none
Memchr(bytes) ==
    IF \E k \in 1..Len(bytes) : bytes[k] = NL
    THEN CHOOSE k \in 1..Len(bytes) :
            bytes[k] = NL /\ \A j \in 1..(k - 1) : bytes[j] # NL
    ELSE 0

\* ByteTransport::new over a reader that will give this input
ByteTransportNew(input) ==
    [stage |-> "open", input |-> input, reader |-> input, buffer |-> <<>>,
     buf |-> <<>>, yielded |-> <<>>, pending |-> 0]

ByteInit ==
    /\ \E b \in Builds : build(b)
    /\ CodecsUnused
    /\ \E input \in Inputs : byte_transport = ByteTransportNew(input)
    /\ RegistryUnused
    /\ phase = "idle"
    /\ wire = WireNone
    /\ request = RequestNone
    /\ tasks = <<>>
    /\ response = ResponsePending
    /\ transport = <<>>
    /\ has_errored = FALSE
    /\ lines = <<>>
    /\ written = <<>>
    /\ log = <<>>

\* poll_fill_buf with nothing buffered: the reader gives its next n bytes
FillBuf(n) ==
    /\ byte_transport.stage = "open"
    /\ byte_transport.buffer = <<>>
    /\ n \in 1..Len(byte_transport.reader)
    /\ byte_transport' =
        [byte_transport EXCEPT !.buffer = SubSeq(byte_transport.reader, 1, n),
                               !.reader = SubSeq(byte_transport.reader, n + 1,
                                                 Len(byte_transport.reader))]
    /\ UNCHANGED <<config, state, phase, wire, request, tasks, response, serving, codecs, registry>>

\* poll_fill_buf with nothing buffered: the reader returns Pending, so does
\* read_until and so does poll_next, whose Vec is dropped with what it holds
ReadPending ==
    /\ byte_transport.stage = "open"
    /\ byte_transport.buffer = <<>>
    /\ byte_transport.reader # <<>>
    /\ byte_transport.pending < MaxPending
    /\ byte_transport' =
        [byte_transport EXCEPT !.buf = <<>>, !.pending = @ + 1]
    /\ UNCHANGED <<config, state, phase, wire, request, tasks, response, serving, codecs, registry>>

\* read_until on buffered bytes: up to the newline they are moved into the
\* Vec and poll_next yields it; without a newline all are moved and the
\* loop goes on
ReadUntil ==
    /\ byte_transport.stage = "open"
    /\ byte_transport.buffer # <<>>
    /\ LET i == Memchr(byte_transport.buffer)
       IN byte_transport' =
            IF i > 0
            THEN [byte_transport EXCEPT
                    !.yielded = Append(@, byte_transport.buf
                                            \o SubSeq(byte_transport.buffer, 1, i)),
                    !.buf = <<>>,
                    !.buffer = SubSeq(byte_transport.buffer, i + 1,
                                      Len(byte_transport.buffer))]
            ELSE [byte_transport EXCEPT
                    !.buf = @ \o byte_transport.buffer,
                    !.buffer = <<>>]
    /\ UNCHANGED <<config, state, phase, wire, request, tasks, response, serving, codecs, registry>>

\* the reader is at its end: read_until returns what the Vec holds, and
\* poll_next yields it, or None when it is empty
ReadEof ==
    /\ byte_transport.stage = "open"
    /\ byte_transport.buffer = <<>>
    /\ byte_transport.reader = <<>>
    /\ byte_transport' =
        [byte_transport EXCEPT
            !.stage = "eof",
            !.yielded = IF byte_transport.buf = <<>> THEN @ ELSE Append(@, byte_transport.buf),
            !.buf = <<>>]
    /\ UNCHANGED <<config, state, phase, wire, request, tasks, response, serving, codecs, registry>>

ByteNext ==
    \/ \E n \in 1..Len(byte_transport.reader) : FillBuf(n)
    \/ ReadPending
    \/ ReadUntil
    \/ ReadEof

ByteSpec == ByteInit /\ [][ByteNext]_vars

(***************************************************************************)
(* MCPServiceBuilder::with_tool / with_prompt: the handlers are kept in a  *)
(* HashMap by name. A handler is told from another by the number of the    *)
(* call that registered it.                                                *)
(***************************************************************************)
\* HashMap::insert keeping the entry the map has for the key
HashMapInsertKeepingFirst(map, key, handler) ==
    IF \E e \in map : e.key = key
    THEN map
    ELSE map \cup {[key |-> key, handler |-> handler]}

\* HashMap::insert: the entry of the key is replaced
HashMapInsert(map, key, handler) ==
    {e \in map : e.key # key} \cup {[key |-> key, handler |-> handler]}

\* MCPServiceBuilder::new
RegistryNew ==
    [stage |-> "building", calls |-> <<>>, tools |-> {}, prompts |-> {},
     called |-> [kind |-> "", name |-> "", handler |-> 0]]

BuilderInit ==
    /\ \E b \in Builds : build(b)
    /\ CodecsUnused
    /\ ByteTransportUnused
    /\ registry = RegistryNew
    /\ phase = "idle"
    /\ wire = WireNone
    /\ request = RequestNone
    /\ tasks = <<>>
    /\ response = ResponsePending
    /\ transport = <<>>
    /\ has_errored = FALSE
    /\ lines = <<>>
    /\ written = <<>>
    /\ log = <<>>

with_tool(name) ==
    /\ registry.stage = "building"
    /\ Len(registry.calls) < MaxRegistrations
    /\ registry' =
        [registry EXCEPT
            !.calls = Append(@, [kind |-> "tool", name |-> name]),
            !.tools = HashMapInsert(@, name, Len(registry.calls) + 1)]
    /\ UNCHANGED <<config, state, phase, wire, request, tasks, response, serving, codecs,
                   byte_transport>>

with_prompt(name) ==
    /\ registry.stage = "building"
    /\ Len(registry.calls) < MaxRegistrations
    /\ registry' =
        [registry EXCEPT
            !.calls = Append(@, [kind |-> "prompt", name |-> name]),
            !.prompts = HashMapInsert(@, name, Len(registry.calls) + 1)]
    /\ UNCHANGED <<config, state, phase, wire, request, tasks, response, serving, codecs,
                   byte_transport>>

\* MCPServiceBuilder::build: the maps are moved into the service
RegistryBuild ==
    /\ registry.stage = "building"
    /\ registry' = [registry EXCEPT !.stage = "built"]
    /\ UNCHANGED <<config, state, phase, wire, request, tasks, response, serving, codecs,
                   byte_transport>>

\* MCPService::call_tool / get_prompt: self.tools.get(name) and
\* self.prompts.get(name), for a name that is registered
RegistryCall(kind, name) ==
    /\ registry.stage = "built"
    /\ LET map == IF kind = "tool" THEN registry.tools ELSE registry.prompts
       IN /\ \E e \in map : e.key = name
          /\ registry' =
                [registry EXCEPT !.called =
                    [kind |-> kind, name |-> name,
                     handler |-> (CHOOSE e \in map : e.key = name).handler]]
    /\ UNCHANGED <<config, state, phase, wire, request, tasks, response, serving, codecs,
                   byte_transport>>

\* MCPService::list_tools / list_prompts: one entry for every value of the
\* map, as the number of entries listed under each name
RegistryList(map) ==
    [name \in {e.key : e \in map} |-> Cardinality({e \in map : e.key = name})]

BuilderNext ==
    \/ \E name \in ToolNames : with_tool(name)
    \/ \E name \in PromptNames : with_prompt(name)
    \/ RegistryBuild
    \/ \E kind \in {"tool", "prompt"}, name \in ToolNames \cup PromptNames :
            RegistryCall(kind, name)

BuilderSpec == BuilderInit /\ [][BuilderNext]_vars

(***************************************************************************)
(* Properties.                                                             *)
(***************************************************************************)
Idx == 1..Len(tasks)
\* the call of MCPService for message i is over: it returned or it panicked
Ended(i) == tasks[i].pc \in {"done", "panicked"}
Returned(i) == tasks[i].pc = "done"
Msg(i) == request.msgs[i]
\* the number of indices of a sequence that satisfy a test
Count(seq, Test(_)) == Cardinality({k \in 1..Len(seq) : Test(seq[k])})
IsRequest(m) == m.kind = "Request"
IsNotification(m) == m.kind = "Notification"
HasId(x) == x.id # RequestIdNull

\* C1: every MethodCall m given to MCPService::call, whatever its method, its
\* params and the outcome of the handler it is routed to, is answered with
\* exactly one ResponseItem, whose id is m.id.
C1_EveryCallAnsweredWithItsId ==
    \A i \in Idx :
        (IsRequest(Msg(i)) /\ Ended(i)) =>
            /\ Returned(i)
            /\ tasks[i].out.some
            /\ tasks[i].out.item.id = Msg(i).id

\* C2: a Notification is never answered: MCPService::call returns None for
\* it, a single notification gives Response::Single(None), and a batch
\* response holds one item per message that is not a notification, none for
\* the notifications.
C2_NotificationsNotAnswered ==
    /\ \A i \in Idx : (IsNotification(Msg(i)) /\ Ended(i)) => tasks[i].out = None
    /\ (phase = "done" /\ request.kind = "Single" /\ IsNotification(Msg(1)))
            => response = ResponseSingle(None)
    /\ (phase = "done" /\ request.kind = "Batch" /\ request.msgs # <<>>)
            => /\ response.kind = "Batch"
               /\ Len(response.items) = Len(request.msgs) - Count(request.msgs, IsNotification)

\* C2 witness: a batch holding a notification (given to the configured
\* notification handler) and a method call was answered with one item fewer
\* than it has messages.
C2_Witness ==
    /\ phase = "done"
    /\ notification_handler
    /\ response.kind = "Batch"
    /\ \E i, j \in Idx :
        /\ IsNotification(Msg(i)) /\ tasks[i].sk = 1
        /\ IsRequest(Msg(j))
    /\ Len(response.items) = Len(request.msgs) - 1

\* C3: MCPService::call and MCPRequestService::call never panic, whatever
\* the message and whatever ToolError or PromptError a handler returns.
C3_CallsNeverPanic == phase # "panicked" /\ \A i \in Idx : tasks[i].pc # "panicked"

\* a JSON object that is neither a method call nor a notification: its
\* version is not "2.0", its method is not a string, or its params are a
\* scalar
Malformed(v) ==
    /\ v.j = "object"
    /\ (v.jsonrpc # JStr("2.0") \/ v.method.t # "str" \/ v.params.t = "scalar")
\* the id a malformed envelope is answered with: its id when that is a
\* number, a string or null, else Null
EnvelopeId(v) ==
    CASE v.id.t = "num" /\ v.id.n >= 0 -> RequestIdNum(v.id.n)
      [] v.id.t = "str" -> RequestIdStr(v.id.s)
      [] OTHER -> RequestIdNull

KnownMethods ==
    {"ping", "initialize", "tools/list", "tools/call", "resources/list", "resources/read",
     "prompts/list", "prompts/get"}

\* C5: a MethodCall with an unknown method is answered with an Error of code
\* -32601 carrying the request's id, and no tool handler, prompt handler or
\* notification handler is invoked for it.
C5_UnknownMethod ==
    \A i \in Idx :
        (IsRequest(Msg(i)) /\ Msg(i).method \notin KnownMethods /\ tasks[i].pc # "created") =>
            /\ Returned(i)
            /\ tasks[i].out.some
            /\ tasks[i].out.item.kind = "Error"
            /\ tasks[i].out.item.id = Msg(i).id
            /\ ErrorCodeCode(tasks[i].out.item.error.code) = -32601
            /\ tasks[i].th = 0 /\ tasks[i].tb = 0 /\ tasks[i].ph = 0 /\ tasks[i].sk = 0

\* C5 witness: a call of the method "nope" with the id "a" was answered, on
\* a service that has tools, prompts and a notification handler.
C5_Witness ==
    /\ phase = "done"
    /\ tools # {} /\ prompts # {} /\ notification_handler
    /\ request.kind = "Single"
    /\ IsRequest(Msg(1))
    /\ Msg(1).method = "nope"
    /\ Msg(1).id = RequestIdStr("a")
    /\ response.item.some

\* C6: an empty batch is answered with Response::Single(Some(Error)), id
\* Null, code -32600, message "Invalid request: batch is empty", and the
\* message service is not called.
C6_EmptyBatch ==
    (phase # "idle" /\ wire = WireBatch(<<>>)) =>
        /\ phase = "done"
        /\ tasks = <<>>
        /\ response.kind = "Single"
        /\ response.item.some
        /\ response.item.item.kind = "Error"
        /\ response.item.item.id = RequestIdNull
        /\ ErrorCodeCode(response.item.item.error.code) = -32600
        /\ response.item.item.error.message = "Invalid request: batch is empty"

\* C6 witness: an empty batch was answered.
C6_Witness == phase = "done" /\ wire = WireBatch(<<>>) /\ response.kind # "Pending"

\* C7: for a non-empty batch, under every interleaving of the handler
\* futures, the call ends with a Response::Batch, made only when every
\* per-message call has returned, holding exactly one item for every message
\* that is not a notification, with that message's id, and nothing else.
C7_BatchAnswersEveryMessage ==
    /\ (request.kind = "Batch" /\ request.msgs # <<>> /\ \E i \in Idx : Ended(i))
            => phase # "panicked"
    /\ (request.kind = "Batch" /\ response.kind # "Pending" /\ request.msgs # <<>>)
            => /\ response.kind = "Batch"
               /\ \A i \in Idx : Returned(i)
               /\ Len(response.items) = Len(request.msgs) - Count(request.msgs, IsNotification)
               /\ \A i \in Idx :
                    ~IsNotification(Msg(i)) =>
                        \E k \in 1..Len(response.items) : response.items[k].id = Msg(i).id

IsAnsweredWithId(m) == m.kind \in {"Request", "Invalid"} /\ HasId(m)

CallsToolFunction(i) ==
    /\ IsRequest(Msg(i))
    /\ Msg(i).method = "tools/call"
    /\ Msg(i).params.name.s \in {"calculator", "get_value"}

\* C9: when a tool function returns Err(ExecutionError(msg)), tools/call is
\* answered with a Success whose result has isError = true and the content
\* [Text("Error: " + msg)], never with a JSON-RPC error.
C9_ExecutionErrorFolded ==
    \A i \in Idx :
        (CallsToolFunction(i) /\ Ended(i) /\ tasks[i].tb = 1
            /\ tasks[i].ret.err.variant = "ExecutionError") =>
            /\ Returned(i)
            /\ tasks[i].out.some
            /\ tasks[i].out.item.kind = "Success"
            /\ tasks[i].out.item.id = Msg(i).id
            /\ tasks[i].out.item.result.isError = "true"
            /\ tasks[i].out.item.result.content
                    = <<[type |-> "text", text |-> "Error: " \o tasks[i].ret.err.msg]>>

\* C9 witness: the calculator's function returned
\* Err(ExecutionError("Division by zero")) and the call was answered.
C9_Witness ==
    \E i \in Idx :
        /\ CallsToolFunction(i)
        /\ Returned(i)
        /\ tasks[i].ret.err = ToolError("ExecutionError", "Division by zero")
        /\ tasks[i].out.some

\* C10: when a tool function returns Err(InvalidParameters), Err(SchemaError)
\* or Err(NotFound), tools/call is answered with an Error (of code -32602 for
\* InvalidParameters and SchemaError), never with a Success.
C10_OtherToolErrorsPropagate ==
    \A i \in Idx :
        (CallsToolFunction(i) /\ Ended(i) /\ tasks[i].tb = 1
            /\ tasks[i].ret.err.variant \in {"InvalidParameters", "SchemaError", "NotFound"}) =>
            /\ Returned(i)
            /\ tasks[i].out.some
            /\ tasks[i].out.item.kind = "Error"
            /\ tasks[i].out.item.id = Msg(i).id
            /\ (tasks[i].ret.err.variant \in {"InvalidParameters", "SchemaError"}
                    => ErrorCodeCode(tasks[i].out.item.error.code) = -32602)

\* C10 witness: the calculator's function returned Err(SchemaError(..)) and
\* the call was answered.
C10_Witness ==
    \E i \in Idx :
        /\ CallsToolFunction(i)
        /\ Returned(i)
        /\ tasks[i].ret.err.variant = "SchemaError"
        /\ tasks[i].out.some

\* message i is a tools/call whose params are a map with a string name
CallsTool(i) ==
    /\ IsRequest(Msg(i))
    /\ Msg(i).method = "tools/call"
    /\ Msg(i).params.t = "Map"
    /\ Msg(i).params.name.t = "str"
\* message i calls the registered calculator with arguments that are absent
\* or do not deserialise into its parameters
CallsCalculatorBadly(i) ==
    /\ CallsTool(i)
    /\ Msg(i).params.name.s = "calculator"
    /\ "calculator" \in tools
    /\ ~(Msg(i).params.arguments.t = "object" /\ Msg(i).params.arguments.fits)
CallsUnregisteredTool(i) == CallsTool(i) /\ Msg(i).params.name.s \notin tools
\* the call for message i returned an Error with the message's id and this code
AnsweredWithError(i, code) ==
    /\ Returned(i)
    /\ tasks[i].out.some
    /\ tasks[i].out.item.kind = "Error"
    /\ tasks[i].out.item.id = Msg(i).id
    /\ ErrorCodeCode(tasks[i].out.item.error.code) = code

\* C11: tools/call for a registered tool with parameters, with arguments that
\* are absent or do not deserialise into them, is answered with an Error of
\* code -32602 carrying the request's id, and the tool function is not run.
C11_BadArgumentsRejected ==
    \A i \in Idx :
        (CallsCalculatorBadly(i) /\ tasks[i].pc # "created") =>
            /\ AnsweredWithError(i, -32602)
            /\ tasks[i].th = 1
            /\ tasks[i].tb = 0

\* C11 witness: a call of the calculator without arguments was answered
\* with an error, the handler entered and the function not run.
C11_Witness ==
    /\ phase = "done"
    /\ request.kind = "Single"
    /\ CallsCalculatorBadly(1)
    /\ Msg(1).params.arguments.t = "absent"
    /\ Msg(1).id = RequestIdNum(1)
    /\ response.item.some
    /\ response.item.item.kind = "Error"
    /\ tasks[1].th = 1

\* C12: tools/call naming a tool that is not registered is answered with an
\* Error of code -32602 carrying the request's id, and no tool handler is
\* invoked.
C12_UnregisteredToolIsInvalidParams ==
    \A i \in Idx :
        (CallsUnregisteredTool(i) /\ tasks[i].pc # "created") =>
            /\ AnsweredWithError(i, -32602)
            /\ tasks[i].th = 0
            /\ tasks[i].tb = 0

\* message i is a prompts/get with a string name and an arguments object,
\* naming a prompt that is not registered
GetsUnregisteredPrompt(i) ==
    /\ IsRequest(Msg(i))
    /\ Msg(i).method = "prompts/get"
    /\ Msg(i).params.t = "Map"
    /\ Msg(i).params.name.t = "str"
    /\ Msg(i).params.arguments.t = "object"
    /\ Msg(i).params.name.s \notin prompts

\* C13: prompts/get naming a prompt that is not registered is answered with
\* an Error of code -32602 carrying the request's id, and no prompt handler
\* is invoked.
C13_UnregisteredPromptIsInvalidParams ==
    \A i \in Idx :
        (GetsUnregisteredPrompt(i) /\ tasks[i].pc # "created") =>
            /\ AnsweredWithError(i, -32602)
            /\ tasks[i].ph = 0

\* C13 witness: on a service that has prompts, prompts/get for the prompt
\* "nope" was answered with an error.
C13_Witness ==
    /\ phase = "done"
    /\ prompts # {}
    /\ request.kind = "Single"
    /\ GetsUnregisteredPrompt(1)
    /\ Msg(1).params.name.s = "nope"
    /\ response.item.some
    /\ response.item.item.kind = "Error"

\* C14: the message of an error response built from a RequestError is the
\* category prefix followed by the detail: "Method not found: <method>",
\* "Invalid parameters: <detail>", "Tool not found: <name>".
C14_MessagesCarryPrefix ==
    \A i \in Idx :
        (Returned(i) /\ tasks[i].out.some) =>
            /\ (IsRequest(Msg(i)) /\ Msg(i).method \notin KnownMethods)
                    => tasks[i].out.item.error.message = "Method not found: " \o Msg(i).method
            /\ CallsCalculatorBadly(i)
                    => tasks[i].out.item.error.message
                            = "Invalid parameters: Missing or incorrect tool arguments"
            /\ CallsUnregisteredTool(i)
                    => tasks[i].out.item.error.message
                            = "Tool not found: " \o Msg(i).params.name.s

\* the responses written for line n
WrittenFor(n) == {k \in 1..Len(written) : written[k].line = n}
\* line n was read and handle_connection is done with it
Processed(n) == lines[n].st = "done"

\* C15: a line that is not valid JSON is answered with exactly one response
\* line: an Error with id null, code -32700 and the message "JSON parsing
\* error when deserialising the message".
C15_InvalidJsonAnswered ==
    \A n \in 1..Len(lines) :
        (lines[n].ev.r = "invalid_json" /\ Processed(n)) =>
            /\ Cardinality(WrittenFor(n)) = 1
            /\ \A k \in WrittenFor(n) :
                /\ written[k].item.kind = "Error"
                /\ written[k].item.id = RequestIdNull
                /\ ErrorCodeCode(written[k].item.error.code) = -32700
                /\ written[k].item.error.message
                        = "JSON parsing error when deserialising the message"

\* C16: a line holding an object whose jsonrpc member is absent or not "2.0"
\* is answered on the transport with exactly one Error of code -32600 that
\* carries the message's id (Null when it has none).
C16_WrongVersionAnswered ==
    \A n \in 1..Len(lines) :
        (/\ lines[n].ev.r = "line"
         /\ lines[n].ev.v.j = "object"
         /\ lines[n].ev.v.jsonrpc # JStr("2.0")
         /\ Processed(n)) =>
            /\ Cardinality(WrittenFor(n)) = 1
            /\ \A k \in WrittenFor(n) :
                /\ written[k].item.kind = "Error"
                /\ written[k].item.id = EnvelopeId(lines[n].ev.v)
                /\ ErrorCodeCode(written[k].item.error.code) = -32600

\* C17: a line that is a JSON array never fails to parse on the shape of its
\* elements and is answered with a batch response.
C17_ArrayLineAnswered ==
    \A n \in 1..Len(lines) :
        (lines[n].ev.r = "line" /\ lines[n].ev.v.j = "array" /\ Processed(n)) =>
            /\ WrittenFor(n) # {}
            /\ \A k \in 1..Len(log) : log[k].line # n

\* C18: serve returns Ok(()) only when the input has reached EOF: an error
\* of the read, a line that fails to parse and a failed write do not end the
\* loop, and every line that arrives afterwards is still read.
C18_ReturnsOnlyAtEof == phase = "closed" => transport = <<>>

\* C19: lines are processed strictly serially: the service call of a line
\* is over and its response written before the next line is read, the
\* service is never called for a line while another is in flight, and the
\* responses are on the wire in the order of their requests.
C19_LinesAreSerial ==
    /\ \A n \in 1..(Len(lines) - 1) :
        /\ Processed(n)
        /\ lines[n].call # 0 =>
            /\ tasks[lines[n].call].pc = "done"
            /\ (request.msgs[lines[n].call].kind # "Notification"
                    /\ tasks[lines[n].call].out.some)
                => \/ WrittenFor(n) # {}
                   \/ \E k \in 1..Len(log) :
                        log[k].line = n /\ log[k].what = "Error processing message"
    /\ Cardinality({i \in Idx : tasks[i].pc \notin {"done", "panicked"}}) <= 1
    /\ \A k \in 1..(Len(written) - 1) : written[k].line < written[k + 1].line
    /\ \A k \in 1..Len(written) :
        /\ written[k].line <= Len(lines)
        /\ lines[written[k].line].call # 0
        /\ written[k].item = tasks[lines[written[k].line].call].out.item

\* C19 witness: two lines were answered in their order, the first a tool
\* call that suspended in the tool function.
C19_Witness ==
    /\ Len(written) = 2
    /\ written[1].line = 1
    /\ written[2].line = 2
    /\ tasks[1].tb = 1
    /\ tasks[1].out.item.id # tasks[2].out.item.id

\* C20: a handler that panics does not end the transport loop: the loop
\* goes on reading (or has returned at EOF).
C20_PanicDoesNotEndTheLoop ==
    (\E i \in Idx : tasks[i].pc = "panicked") => phase \in {"running", "closed"}

\* C22: initialize always succeeds, whatever params the client sends, with
\* protocolVersion "2024-11-05" and serverInfo equal to the built name and
\* version (version "0.1.0" unless with_version was used); its capabilities
\* contain tools (listChanged = false) if and only if a tool is registered,
\* prompts (listChanged = false) if and only if a prompt is registered, and
\* never resources.
C22_InitializeSucceeds ==
    \A i \in Idx :
        (IsRequest(Msg(i)) /\ Msg(i).method = "initialize" /\ tasks[i].pc # "created") =>
            /\ Returned(i)
            /\ tasks[i].out.some
            /\ tasks[i].out.item.kind = "Success"
            /\ tasks[i].out.item.id = Msg(i).id
            /\ LET result == tasks[i].out.item.result
               IN /\ result.text = "2024-11-05"
                  /\ result.serverInfo = [name |-> server_name, version |-> version]
                  /\ server_name # "Everything" => result.serverInfo.version = "0.1.0"
                  /\ result.capabilities.tools.some <=> tools # {}
                  /\ result.capabilities.tools.some
                        => ~result.capabilities.tools.list_changed
                  /\ result.capabilities.prompts.some <=> prompts # {}
                  /\ result.capabilities.prompts.some
                        => ~result.capabilities.prompts.list_changed
                  /\ ~result.capabilities.resources.some

\* C22 witness: initialize with params that are an array was answered by the
\* service built with with_version, tools and prompts.
C22_Witness ==
    /\ phase = "done"
    /\ request.kind = "Single"
    /\ IsRequest(Msg(1))
    /\ Msg(1).method = "initialize"
    /\ Msg(1).params.t = "Array"
    /\ version = "1.2.3"
    /\ response.item.some
    /\ response.item.item.result.capabilities.tools.some
    /\ response.item.item.result.capabilities.prompts.some

\* the tool function of message i returns in this step
ToolReturns_(i, tool) ==
    /\ i \in 1..Len(tasks)
    /\ tasks[i].pc = "in_tool"
    /\ tasks'[i].pc = "done"
    /\ request.msgs[i].params.name.s = tool

\* C23: the state registered with with_state is shared by every call and
\* persists across calls: after any sequence of successful increment(q) and
\* decrement(q) calls, get_value returns 0 plus the sum of the increments
\* minus the sum of the decrements, and get_value itself changes nothing.
C23_GetValueIsTheSum ==
    [][\A i \in 1..Len(tasks) :
            ToolReturns_(i, "get_value") =>
                /\ tasks'[i].ret.text = ToString(ledger.increments - ledger.decrements)
                /\ counter' = counter]_vars

\* C25: the notification handler is invoked exactly once for each
\* Notification the service is called with (in the call made for that
\* notification), and never for a method call or an Invalid message, also
\* inside a batch.
C25_SinkOncePerNotification ==
    \A i \in Idx :
        tasks[i].sk = IF /\ notification_handler
                         /\ IsNotification(Msg(i))
                         /\ tasks[i].pc # "created"
                      THEN 1
                      ELSE 0

\* C25 witness: a batch holding a notification, a method call and an invalid
\* message was answered by a service with a notification handler, which ran
\* for the notification.
C25_Witness ==
    /\ phase = "done"
    /\ notification_handler
    /\ request.kind = "Batch"
    /\ \E i, j, k \in Idx :
        /\ IsNotification(Msg(i)) /\ tasks[i].sk = 1
        /\ IsRequest(Msg(j)) /\ Returned(j)
        /\ Msg(k).kind = "Invalid" /\ Returned(k)

\* C26: for every valid SendableMessage (a Request with any RequestId, Null
\* included, or a Notification, with params absent, an array or a map),
\* deserialising its serialisation yields a message equal to it, of the
\* same variant.
C26_MessageRoundTrip ==
    codec.stage = "parsed" =>
        /\ codec.parsed.kind = codec.message.kind
        /\ codec.parsed = codec.message

\* C26 witness: a method call with the id Null and params that are an array
\* was serialised with "id": null and parsed again.
C26_Witness ==
    /\ codec.stage = "parsed"
    /\ codec.message.kind = "Request"
    /\ codec.message.id = RequestIdNull
    /\ codec.message.params = ParamsArray
    /\ codec.serialised.id = JNull

\* C27, as stated: for every ErrorCode c, every Custom(n) included,
\* deserialising the integer produced by serialising c yields c.
C27_ErrorCodeRoundTripAsStated ==
    error_codec.stage = "decoded" => error_codec.decoded = error_codec.code

StandardCodes == {-32700, -32600, -32601, -32602, -32603}

\* C27, amended: deserialising the integer produced by serialising c yields
\* an ErrorCode with the same integer code; it yields c itself for every c
\* but a Custom(n) whose n is one of the five standard codes, for which it
\* yields the standard variant of that code.
C27_ErrorCodeRoundTrip ==
    error_codec.stage = "decoded" =>
        /\ ErrorCodeSerialize(error_codec.decoded) = ErrorCodeSerialize(error_codec.code)
        /\ IF error_codec.code.variant = "Custom" /\ error_codec.code.n \in StandardCodes
           THEN error_codec.decoded.variant # "Custom"
           ELSE error_codec.decoded = error_codec.code

\* C27 witness: Custom(-32700) was serialised and the integer deserialised
\* as ParseError.
C27_Witness ==
    /\ error_codec.stage = "decoded"
    /\ error_codec.code = Custom(-32700)
    /\ error_codec.integer = -32700
    /\ error_codec.decoded = ErrorCodeOf("ParseError")

\* message i is a tools/call; the checks of its parameters that fail
IsToolsCall(i) == IsRequest(Msg(i)) /\ Msg(i).method = "tools/call"
FailsStructural(i) == Msg(i).params.t # "Map"
FailsNamedPresence(i) == Msg(i).params.name.t # "str"
FailsSchema(i) ==
    /\ Msg(i).params.name.s \in ToolsWithParameters
    /\ ~(Msg(i).params.arguments.t = "object" /\ Msg(i).params.arguments.fits)
FailsRegistry(i) == Msg(i).params.name.s \notin tools
\* the call for message i returned the Error of this check
ReportsStructural(i) ==
    /\ AnsweredWithError(i, -32602)
    /\ tasks[i].out.item.error.message
            \in {"The request was empty", "Parameters must be a map-like object"}
ReportsNamedPresence(i) ==
    /\ AnsweredWithError(i, -32602)
    /\ tasks[i].out.item.error.message = "No tool name was provided"
ReportsSchema(i) ==
    /\ AnsweredWithError(i, -32602)
    /\ tasks[i].out.item.error.message = "Missing or incorrect tool arguments"
    /\ tasks[i].tb = 0
ReportsRegistry(i) ==
    /\ Returned(i)
    /\ tasks[i].out.some
    /\ tasks[i].out.item.kind = "Error"
    /\ tasks[i].out.item.id = Msg(i).id
    /\ tasks[i].out.item.error.message = Msg(i).params.name.s
    /\ tasks[i].th = 0

\* C28, as stated: tools/call applies its checks in the order structural,
\* named presence, handler-side schema check, registry check, and reports
\* the error of the first check that fails in this order.
C28_CheckOrderAsStated ==
    \A i \in Idx :
        IsToolsCall(i) /\ Returned(i) =>
            IF FailsStructural(i) THEN ReportsStructural(i)
            ELSE IF FailsNamedPresence(i) THEN ReportsNamedPresence(i)
            ELSE IF FailsSchema(i) THEN ReportsSchema(i)
            ELSE IF FailsRegistry(i) THEN ReportsRegistry(i)
            ELSE TRUE

\* C28, amended: tools/call applies its checks in the order structural,
\* named presence, registry check, handler-side schema check, and reports
\* the error of the first check that fails in this order.
C28_CheckOrder ==
    \A i \in Idx :
        IsToolsCall(i) /\ Returned(i) =>
            IF FailsStructural(i) THEN ReportsStructural(i)
            ELSE IF FailsNamedPresence(i) THEN ReportsNamedPresence(i)
            ELSE IF FailsRegistry(i) THEN ReportsRegistry(i)
            ELSE IF FailsSchema(i) THEN ReportsSchema(i)
            ELSE TRUE

\* C28 witness: a tools/call of calculator, which is not registered, with
\* arguments that do not deserialise into its parameters, was answered with
\* the error of the registry check.
C28_Witness ==
    \E i \in Idx :
        /\ IsToolsCall(i)
        /\ ~FailsStructural(i)
        /\ ~FailsNamedPresence(i)
        /\ FailsSchema(i)
        /\ FailsRegistry(i)
        /\ ReportsRegistry(i)

\* message i is a tools/call, prompts/get or resources/read that has no
\* params, params that are an array, or no string as name (as uri for
\* resources/read)
RefusedBeforeHandler(i) ==
    /\ IsRequest(Msg(i))
    /\ Msg(i).method \in {"tools/call", "prompts/get", "resources/read"}
    /\ \/ Msg(i).params.t # "Map"
       \/ Msg(i).method \in {"tools/call", "prompts/get"} /\ Msg(i).params.name.t # "str"
       \/ Msg(i).method = "resources/read" /\ Msg(i).params.uri.t # "str"

\* C29: a tools/call, prompts/get or resources/read rejected by a structural
\* or named-presence check is answered with an Error of code -32602 carrying
\* the request's id, no handler is invoked for it, and the step that rejects
\* it leaves the state shared through the context unchanged.
C29_RefusedWithoutEffect ==
    /\ [](\A i \in Idx :
            RefusedBeforeHandler(i) /\ tasks[i].pc # "created" =>
                /\ AnsweredWithError(i, -32602)
                /\ tasks[i].th = 0 /\ tasks[i].tb = 0
                /\ tasks[i].ph = 0 /\ tasks[i].sk = 0)
    /\ [][\A i \in 1..Len(tasks) :
            (/\ Len(tasks') = Len(tasks)
             /\ RefusedBeforeHandler(i)
             /\ tasks[i].pc = "created"
             /\ tasks'[i].pc # "created") =>
                counter' = counter /\ ledger' = ledger]_vars

\* C29 witness: after the counter was changed, a tools/call without a string
\* as name was answered with an Error of code -32602 and the counter is as
\* it was.
C29_Witness ==
    \E i \in Idx :
        /\ IsToolsCall(i)
        /\ Msg(i).params.t = "Map"
        /\ Msg(i).params.name.t # "str"
        /\ AnsweredWithError(i, -32602)
        /\ ledger.calls > 0
        /\ counter # 0

\* message i is a tools/call of a registered tool without `arguments`
CallsWithoutArguments(i) ==
    /\ CallsTool(i)
    /\ Msg(i).params.name.s \in tools
    /\ Msg(i).params.arguments.t = "absent"

\* C30: tools/call without `arguments` is answered with an Error of code
\* -32602, its function not run, when the tool has a parameter record (none
\* deserialises from null), and runs the function and is answered with a
\* Success when the tool declares no parameters; that Success has the same
\* result as the one of the same call with `arguments: {}`.
C30_MissingArguments ==
    \A i \in Idx :
        CallsWithoutArguments(i) /\ Returned(i) =>
            IF Msg(i).params.name.s \in ToolsWithParameters
            THEN AnsweredWithError(i, -32602) /\ tasks[i].tb = 0
            ELSE /\ tasks[i].tb = 1
                 /\ tasks[i].out.some
                 /\ tasks[i].out.item.kind = "Success"
                 /\ tasks[i].out.item.id = Msg(i).id
                 /\ \A j \in Idx :
                        (/\ CallsTool(j)
                         /\ Returned(j)
                         /\ Msg(j).params.name.s = Msg(i).params.name.s
                         /\ Msg(j).params.arguments = ArgObject(TRUE)
                         /\ \A k \in Idx : Msg(k).params.name.s = Msg(i).params.name.s)
                        => tasks[j].out.item.result = tasks[i].out.item.result

\* C30 witness: in one batch, get_value without `arguments` and get_value
\* with `arguments: {}` both returned a Success, after the counter changed.
C30_Witness ==
    /\ Len(tasks) = 2
    /\ CallsWithoutArguments(1)
    /\ Msg(1).params.name.s = "get_value"
    /\ Msg(2).params.name.s = "get_value"
    /\ Msg(2).params.arguments = ArgObject(TRUE)
    /\ Returned(1) /\ Returned(2)
    /\ tasks[1].out.item.kind = "Success"
    /\ tasks[2].out.item.result = tasks[1].out.item.result
    /\ counter # 0

\* message i is a call of this method that returned
ReturnedFrom(i, method) == IsRequest(Msg(i)) /\ Msg(i).method = method /\ Returned(i)

\* C21: the registry is frozen at build: the sets of registered tools and
\* prompts never change, and whatever calls were made before (tools/call,
\* prompts/get, notifications, invalid messages), every tools/list and every
\* prompts/list is answered with the tools and the prompts the service was
\* built with, so with the same result as the first one.
C21_RegistryFrozen ==
    /\ [](\A i \in Idx :
            /\ ReturnedFrom(i, "tools/list") =>
                    tasks[i].out = Some(ResponseItemSuccess(Msg(i).id,
                                        Value("ListToolsResult", <<>>, "absent", tools, "")))
            /\ ReturnedFrom(i, "prompts/list") =>
                    tasks[i].out = Some(ResponseItemSuccess(Msg(i).id,
                                        Value("ListPromptsResult", <<>>, "absent", prompts, ""))))
    /\ [](\A i, j \in Idx :
            \A method \in {"tools/list", "prompts/list"} :
                (ReturnedFrom(i, method) /\ ReturnedFrom(j, method)) =>
                    tasks[i].out.item.result = tasks[j].out.item.result)
    /\ [][tools' = tools /\ prompts' = prompts]_vars

\* C21 witness: a tool was called and ran, and the tools/list that followed
\* was answered with all three tools.
C21_Witness ==
    /\ Len(written) = 2
    /\ Len(tasks) = 2
    /\ CallsTool(1) /\ tasks[1].tb = 1 /\ Returned(1)
    /\ ReturnedFrom(2, "tools/list")
    /\ written[2].item.result.names = ToolNames

\* message i is a prompts/get whose params are a map with a string name and
\* with `arguments` absent or not an object
GetsPromptWithoutArgumentsObject(i) ==
    /\ IsRequest(Msg(i))
    /\ Msg(i).method = "prompts/get"
    /\ Msg(i).params.t = "Map"
    /\ Msg(i).params.name.t = "str"
    /\ Msg(i).params.arguments.t # "object"

\* C31: prompts/get whose `arguments` is absent or not an object is answered
\* with an Error of code -32602 and the prompt handler is not invoked,
\* whatever the named prompt declares and whether or not it is registered.
C31_PromptArgumentsRequired ==
    \A i \in Idx :
        GetsPromptWithoutArgumentsObject(i) /\ tasks[i].pc # "created" =>
            /\ AnsweredWithError(i, -32602)
            /\ tasks[i].out.item.error.message = "Missing arguments object"
            /\ tasks[i].ph = 0

\* C31 witness: on a service with prompts, prompts/get without `arguments`
\* was refused for a name that is not registered.
C31_Witness ==
    /\ \E i \in Idx :
        /\ GetsPromptWithoutArgumentsObject(i)
        /\ Msg(i).params.arguments.t = "absent"
        /\ Msg(i).params.name.s \notin prompts
        /\ AnsweredWithError(i, -32602)
    /\ prompts # {}

\* a registered prompt was refused in the same way
C31_Registered ==
    \E i \in Idx :
        /\ GetsPromptWithoutArgumentsObject(i)
        /\ Msg(i).params.name.s \in prompts
        /\ AnsweredWithError(i, -32602)

\* the methods that take no params, and the result each gives on this service
ParamlessMethods == {"ping", "tools/list", "prompts/list", "resources/list"}
ParamlessResult(method) ==
    CASE method = "ping" -> Value("{}", <<>>, "absent", {}, "")
      [] method = "tools/list" -> Value("ListToolsResult", <<>>, "absent", tools, "")
      [] method = "prompts/list" -> Value("ListPromptsResult", <<>>, "absent", prompts, "")
      [] method = "resources/list" -> Value("ListResourcesResult", <<>>, "absent", {}, "")

\* C32: ping, tools/list, prompts/list and resources/list are answered with
\* a Success whose result is the same whatever the params are (absent, an
\* array, an empty map, a map with other members): {} for ping, the
\* registered tools or prompts, no resources; never with an Error.
C32_ParamsIgnored ==
    \A i \in Idx :
        (/\ IsRequest(Msg(i))
         /\ Msg(i).method \in ParamlessMethods
         /\ tasks[i].pc # "created") =>
            /\ Returned(i)
            /\ tasks[i].out.some
            /\ tasks[i].out.item.kind = "Success"
            /\ tasks[i].out.item.id = Msg(i).id
            /\ tasks[i].out.item.result = ParamlessResult(Msg(i).method)

\* C32 witness: tools/list with params that are an array was answered with
\* the registered tools.
C32_Witness ==
    \E i \in Idx :
        /\ IsRequest(Msg(i))
        /\ Msg(i).method = "tools/list"
        /\ Msg(i).params = ParamsArray
        /\ Returned(i)
        /\ tasks[i].out.item.kind = "Success"
        /\ tasks[i].out.item.result.names = ToolNames

\* the same for prompts/list with params that are a map with other members
C32_ExtraMembers ==
    \E i \in Idx :
        /\ IsRequest(Msg(i))
        /\ Msg(i).method = "prompts/list"
        /\ Msg(i).params = ParamsMap(JStr("nope"), ArgScalar, JAbsent)
        /\ Returned(i)
        /\ tasks[i].out.item.kind = "Success"

\* the Error items the pipeline has produced: what the calls of MCPService
\* returned and what the Response holds
ErrorItems ==
    {tasks[i].out.item : i \in {j \in Idx : tasks[j].out.some}}
    \cup (IF response.kind = "Single" /\ response.item.some THEN {response.item.item} ELSE {})
    \cup (IF response.kind = "Batch"
          THEN {response.items[k] : k \in 1..Len(response.items)}
          ELSE {})

\* C33: every Error the pipeline produces, from a RequestError, from an
\* Invalid message or from an empty batch, has data = None, so that its
\* serialisation holds the members code and message only.
C33_ErrorsCarryNoData ==
    \A item \in ErrorItems :
        item.kind = "Error" =>
            /\ item.error.data = "None"
            /\ ErrorDataMembers(item.error) = {"code", "message"}

\* C33 witness: the Response holds the Error made from a RequestError
\* (InvalidParams).
C33_Witness ==
    /\ response.kind = "Single"
    /\ response.item.some
    /\ response.item.item.kind = "Error"
    /\ response.item.item.error.code = "InvalidParams"
    /\ response.item.item.error.data = "None"

\* the Response to an empty batch and to an Invalid message were produced
C33_EmptyBatch == response = EmptyBatchResponse
C33_InvalidMessage ==
    \E i \in Idx :
        /\ Msg(i).kind = "Invalid"
        /\ Returned(i)
        /\ tasks[i].out.item.kind = "Error"

\* element i of the document is an object with "jsonrpc": "2.0", a string as
\* method and an id member, of whatever type
CarriesId(i) ==
    /\ wire.elems[i].j = "object"
    /\ wire.elems[i].jsonrpc = JStr("2.0")
    /\ wire.elems[i].method.t = "str"
    /\ wire.elems[i].id.t # "absent"

\* C34: a message that has an id member, of whatever JSON type, is never
\* treated as a notification: it is not deserialised as one, it is not
\* handed to the notification handler, and its call returns a response item.
C34_IdNeverNotification ==
    \A i \in Idx :
        CarriesId(i) /\ tasks[i].pc # "created" =>
            /\ ~IsNotification(Msg(i))
            /\ tasks[i].sk = 0
            /\ Returned(i) => tasks[i].out.some

\* the messages of the batch that were answered
Answered == {i \in Idx : tasks[i].out.some}

\* C35: the items of a batch response are the answers of the messages that
\* have one, in the order of the messages in the request batch, whatever
\* the order in which the futures of the messages finished.
C35_BatchOrder ==
    (phase = "done" /\ response.kind = "Batch") =>
        /\ Len(response.items) = Cardinality(Answered)
        /\ \A i \in Answered :
              response.items[Cardinality({j \in Answered : j <= i})] = tasks[i].out.item

\* C35 witness: a batch was answered in which the future of a later message
\* finished before the future of an earlier message, and their answers
\* differ.
C35_Witness ==
    /\ phase = "done"
    /\ response.kind = "Batch"
    /\ \E i, j \in Answered :
        /\ i < j
        /\ 0 < tasks[j].at
        /\ tasks[j].at < tasks[i].at
        /\ tasks[i].out.item # tasks[j].out.item

\* C36: the service wrapped in TracingLayer behaves as the inner service:
\* for every message, Request, Notification or Invalid, its call does what
\* the call of the inner service does, and it does not panic where the
\* inner service does not.
C36_TracingTransparent ==
    [][\A i \in 1..Len(tasks) :
        (/\ Len(tasks') = Len(tasks)
         /\ tasks[i].pc = "created"
         /\ tasks'[i].pc # "created") =>
            tasks'[i] = CallStart(request.msgs[i])]_vars

\* C37: ByteTransport yields every newline-terminated line of the input
\* exactly once, intact and in the order of arrival, however the reader
\* splits the bytes and however often it returns Pending within a line:
\* what it has yielded are the first lines of the input, and at the end of
\* the input all of them.
C37_LinesDelivered ==
    byte_transport.stage # "unused" =>
        LET sent == LinesOf(byte_transport.input, <<>>)
            got == byte_transport.yielded
        IN /\ Len(got) <= Len(sent)
           /\ \A k \in 1..Len(got) : got[k] = sent[k]
           /\ byte_transport.stage = "eof" => got = sent

\* the numbers of the with_tool / with_prompt calls made with this name
Registrations(kind, name) ==
    {k \in 1..Len(registry.calls) :
        registry.calls[k].kind = kind /\ registry.calls[k].name = name}
\* the handler registered last under this name
LastRegistered(kind, name) ==
    CHOOSE k \in Registrations(kind, name) : \A j \in Registrations(kind, name) : j <= k

\* C38: in a built service the names are unique: tools/list and prompts/list
\* hold exactly one entry for every name that was registered, however often
\* it was, and a call by name goes to the handler registered last under it.
C38_LastRegistrationWins ==
    registry.stage = "built" =>
        /\ \A kind \in {"tool", "prompt"} :
            LET map == IF kind = "tool" THEN registry.tools ELSE registry.prompts
                names == {registry.calls[k].name :
                            k \in {j \in 1..Len(registry.calls) :
                                        registry.calls[j].kind = kind}}
            IN /\ DOMAIN RegistryList(map) = names
               /\ \A name \in names : RegistryList(map)[name] = 1
        /\ registry.called.kind # "" =>
                registry.called.handler =
                    LastRegistered(registry.called.kind, registry.called.name)

\* C38 witness: a tool was registered twice under one name and a call by
\* that name went to the second handler.
C38_Witness ==
    /\ registry.stage = "built"
    /\ registry.called.kind = "tool"
    /\ Cardinality(Registrations("tool", registry.called.name)) >= 2
    /\ registry.called.handler > 1
    /\ RegistryList(registry.tools)[registry.called.name] = 1

\* message i is a resources/read whose params are a map with a string uri
ReadsResource(i) ==
    /\ IsRequest(Msg(i))
    /\ Msg(i).method = "resources/read"
    /\ Msg(i).params.t = "Map"
    /\ Msg(i).params.uri.t = "str"

\* C39: resources/list is always answered with a Success holding no
\* resources, and resources/read with a string uri always with an Error of
\* code -32603 carrying the request's id, never with a Success, whatever
\* was called before.
C39_ResourcesStubbed ==
    \A i \in Idx :
        (IsRequest(Msg(i)) /\ tasks[i].pc # "created") =>
            /\ Msg(i).method = "resources/list" =>
                    /\ Returned(i)
                    /\ tasks[i].out.some
                    /\ tasks[i].out.item.kind = "Success"
                    /\ tasks[i].out.item.id = Msg(i).id
                    /\ tasks[i].out.item.result.shape = "ListResourcesResult"
                    /\ tasks[i].out.item.result.names = {}
            /\ ReadsResource(i) =>
                    /\ AnsweredWithError(i, -32603)
                    /\ tasks[i].out.item.error.code = "InternalError"

\* C39 witness: resources/read of file:///a was answered with an Error of
\* code -32603 on a service that has tools.
C39_Witness ==
    \E i \in Idx :
        /\ ReadsResource(i)
        /\ Msg(i).params.uri.s = "file:///a"
        /\ AnsweredWithError(i, -32603)
        /\ tools # {}
====
